---- MODULE Spec2Model ----
(***************************************************************************)
(* USDCVault (ERC-4626 vault with a weighted strategy registry), the       *)
(* StrategyBase / MockYieldStrategy sub-ledgers it routes funds to, and    *)
(* the base-asset token, as one state machine.  Every public function of   *)
(* the contracts is one action; a transaction that reverts commits         *)
(* nothing but the record of the call (last).                              *)
(***************************************************************************)
EXTENDS Integers, Sequences, FiniteSets, TLC

VARIABLES
    bal,             \* base-asset token balance of every account
    vShares,         \* vault share balance of every participant
    vSupply,         \* vault share totalSupply
    sShares,         \* strategy share balance of the vault, per strategy
    sSupply,         \* strategy share totalSupply, per strategy
    strategyInfo,    \* vault registry: targetAllocation, totalDeposited, isActive
    strategies,      \* vault registry: the ordered list _strategies
    totalAllocation, \* vault registry: sum of the active weights (bps)
    allowance,       \* base-asset allowance the vault has granted each strategy
    paused,          \* vault Pausable flag
    sPaused,         \* strategy Pausable flag, per strategy
    nonce,           \* number of committed transactions
    last             \* the most recent call: inputs, outcome, events

vars == <<bal, vShares, vSupply, sShares, sSupply, strategyInfo, strategies,
          totalAllocation, allowance, paused, sPaused, nonce, last>>

---------------------------------------------------------------------------
\* Identities

Owner == "owner"
Vault == "vault"
ZeroAddress == "zero"
Users == {"user1", "user2"}
Strategies == {"strat1", "strat2"}
Accounts == {Owner, Vault} \cup Users \cup Strategies

\* Bounds of the exploration
MaxOps == 4
InitialUserBalance == 3000000
InitialOwnerBalance == 2000000

\* Program constants
minLiquidity == 1000000
MaxBps == 10000
\* type(uint256).max, represented by the largest value the checker can hold
UintMax == 2147483647
\* results of full-precision products at or above Sat are reported as Sat
Sat == 1073741824

\* Inputs the transactions are called with: <<caller, amount>>,
\* <<caller, strategy>> or <<caller, strategy, amount>>
NonOwner == "user1"
Callers == {Owner, NonOwner}
DepositInputs == {<<"user1", 0>>, <<"user1", 2000001>>, <<"user2", 2000001>>}
MintInputs == {<<"user1", 1200000>>}
WithdrawInputs == {<<"user1", 0>>, <<"user1", 1200000>>, <<"user1", 2000001>>,
                   <<"user2", 1800000>>}
RedeemAmounts == {500000}
Weights == {5000, 7001, 10001}
RegistryInputs ==
    ({Owner} \X (Strategies \cup {ZeroAddress}) \X Weights)
        \cup {<<NonOwner, "strat1", 5000>>}
\* updateStrategyAllocation also lowers the weight of a registered strategy
UpdateInputs == RegistryInputs \cup {<<Owner, "strat1", 2000>>}
StrategyRefs ==
    ({Owner} \X (Strategies \cup {ZeroAddress})) \cup {<<NonOwner, "strat1">>}
DirectInputs == {<<NonOwner, "strat1", 400000>>, <<Owner, "strat2", 400000>>}
StrategyOwnerInputs == ({Owner} \X Strategies) \cup {<<NonOwner, "strat1">>}
DripInputs ==
    {<<Owner, "strat1", 800000>>, <<Owner, "strat1", 0>>, <<NonOwner, "strat1", 800000>>}
SkimInputs == {<<Owner, "strat1", 300000>>, <<NonOwner, "strat1", 300000>>}

Min(a, b) == IF a < b THEN a ELSE b

---------------------------------------------------------------------------
\* Math.mulDiv: floor or ceiling of a * b / c without intermediate overflow

RECURSIVE MulDivRem(_, _, _)
MulDivRem(a, b, c) ==
    IF b = 0 \/ a = 0 THEN <<0, 0>>
    ELSE LET h == MulDivRem(a, b \div 2, c)
             bit == b % 2
             d == 2 * h[2] + bit * (a % c)
             q == 2 * h[1] + bit * (a \div c) + (d \div c)
         IN  <<IF h[1] >= (Sat + 1) \div 2 \/ q >= Sat THEN Sat ELSE q, d % c>>

\* the quotient rounded up whatever the rounding asked for
MulDivAlwaysUp(a, b, c, roundUp) ==
    LET m == MulDivRem(a, b, c)
    IN  IF m[2] > 0 /\ m[1] < Sat THEN m[1] + 1 ELSE m[1]

MulDiv(a, b, c, roundUp) ==
    LET m == MulDivRem(a, b, c)
    IN  IF roundUp /\ m[2] > 0 /\ m[1] < Sat THEN m[1] + 1 ELSE m[1]

\* ERC4626._convertToShares / _convertToAssets with _decimalsOffset() = 0
\* the conversion without the virtual share and asset
ConvertToSharesNoOffset(assets, supply, total, roundUp) ==
    IF supply = 0 \/ total = 0 THEN assets ELSE MulDiv(assets, supply, total, roundUp)

ConvertToShares(assets, supply, total, roundUp) ==
    MulDiv(assets, supply + 1, total + 1, roundUp)

ConvertToAssets(shares, supply, total, roundUp) ==
    MulDiv(shares, total + 1, supply + 1, roundUp)

---------------------------------------------------------------------------
\* Outcome of a (nested) call: the world it leaves and its return value, or
\* the error it reverts with.

Ok(w, ret) == [ok |-> TRUE, err |-> "", w |-> w, ret |-> ret]
Fail(w, e) == [ok |-> FALSE, err |-> e, w |-> w, ret |-> 0]
Emit(w, e) == [w EXCEPT !.log = Append(@, e)]

\* `return <call>`: the call's world with the value returned, or its revert
Returning(r, ret) == IF r.ok THEN Ok(r.w, ret) ELSE r

World ==
    [bal |-> bal, vShares |-> vShares, vSupply |-> vSupply,
     sShares |-> sShares, sSupply |-> sSupply, strategyInfo |-> strategyInfo,
     strategies |-> strategies, totalAllocation |-> totalAllocation,
     allowance |-> allowance, paused |-> paused, sPaused |-> sPaused,
     log |-> <<>>]

---------------------------------------------------------------------------
\* Base-asset token (ERC20)

TokenTransfer(w, from, to, amt) ==
    IF w.bal[from] < amt THEN Fail(w, "ERC20InsufficientBalance")
    ELSE Ok([w EXCEPT !.bal[from] = @ - amt, !.bal[to] = @ + amt], 0)

\* Participants approve the spender before they call it (as the tests and
\* the front end do); the vault's approvals of its strategies are state.
TokenAllowance(w, holder, spender) ==
    IF holder = Vault THEN w.allowance[spender] ELSE UintMax

TokenTransferFrom(w, spender, from, to, amt) ==
    LET cur == TokenAllowance(w, from, spender)
    IN  IF cur # UintMax /\ cur < amt THEN Fail(w, "ERC20InsufficientAllowance")
        ELSE LET w1 == IF cur # UintMax /\ from = Vault
                       THEN [w EXCEPT !.allowance[spender] = cur - amt]
                       ELSE w
             IN  TokenTransfer(w1, from, to, amt)

TokenApprove(w, spender, amt) == [w EXCEPT !.allowance[spender] = amt]

---------------------------------------------------------------------------
\* StrategyBase / MockYieldStrategy.  Every strategy is bound to the vault
\* and owned by the deployer (Owner); the vault is the only share holder.

StrategyVault(s) == Vault
StrategyOwner(s) == Owner

\* _totalDeployed(): nothing is deployed externally
Strategy_totalDeployed(w, s) == 0

Strategy_totalAssets(w, s) == w.bal[s] + Strategy_totalDeployed(w, s)

Strategy_maxDeposit(w, s) == IF w.sPaused[s] THEN 0 ELSE UintMax
Strategy_maxMint(w, s) == IF w.sPaused[s] THEN 0 ELSE UintMax

Strategy_previewDeposit(w, s, assets) ==
    ConvertToShares(assets, w.sSupply[s], Strategy_totalAssets(w, s), FALSE)
Strategy_previewMint(w, s, shares) ==
    ConvertToAssets(shares, w.sSupply[s], Strategy_totalAssets(w, s), TRUE)
Strategy_previewWithdraw(w, s, assets) ==
    ConvertToShares(assets, w.sSupply[s], Strategy_totalAssets(w, s), TRUE)
Strategy_previewRedeem(w, s, shares) ==
    ConvertToAssets(shares, w.sSupply[s], Strategy_totalAssets(w, s), FALSE)

\* share balance of `holder` in strategy s
Strategy_balanceOf(w, s, holder) == IF holder = Vault THEN w.sShares[s] ELSE 0

\* ERC4626._deposit: pull the assets from the caller, mint the shares
Strategy_pull(w, s, caller, assets, shares) ==
    LET Mint(t) ==
            IF ~t.ok THEN t
            ELSE Ok([t.w EXCEPT !.sShares[s] = @ + shares, !.sSupply[s] = @ + shares], 0)
    IN  Mint(TokenTransferFrom(w, s, caller, s, assets))

\* ERC4626._withdraw: burn the owner's shares, send the assets to the receiver
Strategy_push(w, s, holder, assets, shares) ==
    IF Strategy_balanceOf(w, s, holder) < shares THEN Fail(w, "ERC20InsufficientBalance")
    ELSE LET w1 == [w EXCEPT !.sShares[s] = @ - shares, !.sSupply[s] = @ - shares]
         IN  TokenTransfer(w1, s, holder, assets)

Strategy_depositNoVaultCheck(w, s, caller, assets) ==
    IF w.sPaused[s] THEN Fail(w, "EnforcedPause")
    ELSE IF assets > Strategy_maxDeposit(w, s) THEN Fail(w, "ERC4626ExceededMaxDeposit")
    ELSE LET shares == Strategy_previewDeposit(w, s, assets)
         IN  Returning(Strategy_pull(w, s, caller, assets, shares), shares)

Strategy_deposit(w, s, caller, assets) ==
    IF w.sPaused[s] THEN Fail(w, "EnforcedPause")
    ELSE IF caller # StrategyVault(s) THEN Fail(w, "BaseStrategy: caller not vault")
    ELSE IF assets > Strategy_maxDeposit(w, s) THEN Fail(w, "ERC4626ExceededMaxDeposit")
    ELSE LET shares == Strategy_previewDeposit(w, s, assets)
         IN  Returning(Strategy_pull(w, s, caller, assets, shares), shares)

Strategy_mint(w, s, caller, shares) ==
    IF w.sPaused[s] THEN Fail(w, "EnforcedPause")
    ELSE IF caller # StrategyVault(s) THEN Fail(w, "BaseStrategy: caller not vault")
    ELSE IF shares > Strategy_maxMint(w, s) THEN Fail(w, "ERC4626ExceededMaxMint")
    ELSE LET assets == Strategy_previewMint(w, s, shares)
         IN  Returning(Strategy_pull(w, s, caller, assets, shares), assets)

\* withdraw(assets, receiver, owner_) with receiver = owner_ = caller
Strategy_withdraw(w, s, caller, assets) ==
    IF caller # StrategyVault(s) THEN Fail(w, "BaseStrategy: caller not vault")
    ELSE IF assets > Strategy_previewRedeem(w, s, Strategy_balanceOf(w, s, caller))
         THEN Fail(w, "ERC4626ExceededMaxWithdraw")
    ELSE LET shares == Strategy_previewWithdraw(w, s, assets)
         IN  Returning(Strategy_push(w, s, caller, assets, shares), shares)

Strategy_redeemWhenNotPaused(w, s, caller, shares) ==
    IF w.sPaused[s] THEN Fail(w, "EnforcedPause")
    ELSE IF caller # StrategyVault(s) THEN Fail(w, "BaseStrategy: caller not vault")
    ELSE IF shares > Strategy_balanceOf(w, s, caller) THEN Fail(w, "ERC4626ExceededMaxRedeem")
    ELSE LET assets == Strategy_previewRedeem(w, s, shares)
         IN  Returning(Strategy_push(w, s, caller, assets, shares), assets)

\* redeem(shares, receiver, owner_) with receiver = owner_ = caller
Strategy_redeem(w, s, caller, shares) ==
    IF caller # StrategyVault(s) THEN Fail(w, "BaseStrategy: caller not vault")
    ELSE IF shares > Strategy_balanceOf(w, s, caller) THEN Fail(w, "ERC4626ExceededMaxRedeem")
    ELSE LET assets == Strategy_previewRedeem(w, s, shares)
         IN  Returning(Strategy_push(w, s, caller, assets, shares), assets)

\* _harvest(): no external rewards process
Strategy_harvestHook(w, s) == 0

Strategy_harvest(w, s, caller) ==
    IF caller # StrategyOwner(s) THEN Fail(w, "OwnableUnauthorizedAccount")
    ELSE LET pnl == Strategy_harvestHook(w, s)
         IN  Ok(Emit(w, [ev |-> "Harvest", s |-> s, amt |-> pnl]), pnl)

Strategy_setEmergencyShutdown(w, s, caller, shutdown) ==
    IF caller # StrategyOwner(s) THEN Fail(w, "OwnableUnauthorizedAccount")
    ELSE IF shutdown /\ w.sPaused[s] THEN Fail(w, "EnforcedPause")
    ELSE IF ~shutdown /\ ~w.sPaused[s] THEN Fail(w, "ExpectedPause")
    ELSE Ok(Emit([w EXCEPT !.sPaused[s] = shutdown],
                 [ev |-> "StrategyEmergencyShutdownUpdated", s |-> s, amt |-> 0]), 0)

\* _freeFunds(assets): funds are idle, min(assets, balance)
Strategy_freeFunds(w, s, assets) == IF assets >= w.bal[s] THEN w.bal[s] ELSE assets

\* _deployFunds(assets): funds stay idle; the call is recorded in the log
Strategy_deployFunds(w, s, assets) ==
    Emit(w, [ev |-> "_deployFunds", s |-> s, amt |-> assets])

\* afterDeposit / beforeWithdraw: internal hooks of StrategyBase, called by
\* no function of the contract or of the ERC4626 it inherits
Strategy_afterDeposit(w, s, assets) ==
    IF assets > 0 THEN Strategy_deployFunds(w, s, assets) ELSE w

Strategy_beforeWithdraw(w, s, assets) ==
    IF assets > 0
    THEN LET freed == Strategy_freeFunds(w, s, assets)
         IN  IF ~(w.bal[s] >= assets) THEN Fail(w, "BaseStrategy: insufficient liquidity")
             ELSE Ok(Emit(w, [ev |-> "_freeFunds", s |-> s, amt |-> freed]), 0)
    ELSE Ok(w, 0)

Strategy_emergencyWithdrawToOwner(w, s, caller) ==
    IF caller # StrategyOwner(s) THEN Fail(w, "OwnableUnauthorizedAccount")
    ELSE LET b == w.bal[s]
             Sent(t) ==
                 IF ~t.ok THEN t
                 ELSE Ok(Emit(t.w, [ev |-> "EmergencyWithdrawn", s |-> s, amt |-> 0]), 0)
         IN  Sent(IF b > 0 THEN TokenTransfer(w, s, caller, b) ELSE Ok(w, 0))

Strategy_emergencyWithdrawToVault(w, s, caller) ==
    IF caller # StrategyOwner(s) THEN Fail(w, "OwnableUnauthorizedAccount")
    ELSE LET wantBefore == w.bal[s]
             freedHook == Strategy_freeFunds(w, s, UintMax)
             b == w.bal[s]
             freed == b - wantBefore
             Sent(t) ==
                 IF ~t.ok THEN t
                 ELSE Ok(Emit(t.w, [ev |-> "EmergencyWithdrawn", s |-> s, amt |-> freed]), 0)
         IN  Sent(IF b > 0 THEN TokenTransfer(w, s, StrategyVault(s), b) ELSE Ok(w, 0))

Strategy_dripMintingShares(w, s, caller, amount) ==
    IF caller # StrategyOwner(s) THEN Fail(w, "OwnableUnauthorizedAccount")
    ELSE IF ~(amount > 0) THEN Fail(w, "amount=0")
    ELSE LET Pulled(t) ==
                 IF ~t.ok THEN t
                 ELSE Ok(Emit([t.w EXCEPT !.sSupply[s] = @ + amount],
                              [ev |-> "Dripped", s |-> s, amt |-> amount]), 0)
         IN  Pulled(TokenTransferFrom(w, s, caller, s, amount))

Strategy_drip(w, s, caller, amount) ==
    IF caller # StrategyOwner(s) THEN Fail(w, "OwnableUnauthorizedAccount")
    ELSE IF ~(amount > 0) THEN Fail(w, "amount=0")
    ELSE LET Pulled(t) ==
                 IF ~t.ok THEN t
                 ELSE Ok(Emit(t.w, [ev |-> "Dripped", s |-> s, amt |-> amount]), 0)
         IN  Pulled(TokenTransferFrom(w, s, caller, s, amount))

Strategy_skim(w, s, caller, to, amount) ==
    IF caller # StrategyOwner(s) THEN Fail(w, "OwnableUnauthorizedAccount")
    ELSE IF to = ZeroAddress THEN Fail(w, "to=0")
    ELSE TokenTransfer(w, s, to, amount)

---------------------------------------------------------------------------
\* USDCVault: views

\* the external call ERC4626(strategy).totalAssets() made under try/catch
Strategy_totalAssetsCall(w, s) == Ok(w, Strategy_totalAssets(w, s))

RECURSIVE StrategyAssetsRecordedFrom(_, _)
StrategyAssetsRecordedFrom(w, i) ==
    IF i > Len(w.strategies) THEN 0
    ELSE LET s == w.strategies[i]
             here == IF ~w.strategyInfo[s].isActive THEN 0
                     ELSE w.strategyInfo[s].totalDeposited
         IN  here + StrategyAssetsRecordedFrom(w, i + 1)

RECURSIVE StrategyAssetsFrom(_, _)
StrategyAssetsFrom(w, i) ==
    IF i > Len(w.strategies) THEN 0
    ELSE LET s == w.strategies[i]
             q == Strategy_totalAssetsCall(w, s)
             here == IF ~w.strategyInfo[s].isActive THEN 0
                     ELSE IF q.ok THEN q.ret
                     ELSE w.strategyInfo[s].totalDeposited
         IN  here + StrategyAssetsFrom(w, i + 1)

\* the ledger's own accounting, without the override
Vault_totalAssetsBufferOnly(w) == w.bal[Vault]

Vault_totalAssets(w) == w.bal[Vault] + StrategyAssetsFrom(w, 1)

Vault_maxDeposit(w) == IF w.paused THEN 0 ELSE UintMax
Vault_maxMint(w) == IF w.paused THEN 0 ELSE UintMax

Vault_previewDeposit(w, assets) ==
    ConvertToShares(assets, w.vSupply, Vault_totalAssets(w), FALSE)
Vault_previewMint(w, shares) ==
    ConvertToAssets(shares, w.vSupply, Vault_totalAssets(w), TRUE)
Vault_previewWithdraw(w, assets) ==
    ConvertToShares(assets, w.vSupply, Vault_totalAssets(w), TRUE)
Vault_previewRedeem(w, shares) ==
    ConvertToAssets(shares, w.vSupply, Vault_totalAssets(w), FALSE)
Vault_maxWithdraw(w, holder) == Vault_previewRedeem(w, w.vShares[holder])
Vault_maxRedeem(w, holder) == w.vShares[holder]

---------------------------------------------------------------------------
\* USDCVault: internal strategy management

DepositToStrategy(w, strategy, amount) ==
    IF ~w.strategyInfo[strategy].isActive THEN Fail(w, "not active strategy")
    ELSE IF ~(amount > 0) THEN Fail(w, "zero amount")
    ELSE IF ~(w.bal[Vault] >= amount) THEN Fail(w, "insufficient vault balance")
    ELSE LET w1 == TokenApprove(w, strategy, amount)
             \* try ... returns / catch
             Tried(r) ==
                 IF r.ok
                 THEN Ok(Emit([r.w EXCEPT !.strategyInfo[strategy].totalDeposited = @ + amount],
                              [ev |-> "FundsDeployedToStrategy", s |-> strategy,
                               amt |-> amount]), 0)
                 ELSE Fail(w1, "strategy deposit failed")
         IN  Tried(Strategy_deposit(w1, strategy, Vault, amount))

\* the external call ERC4626(strategy).previewWithdraw(amount) made under try/catch
Strategy_previewWithdrawCall(w, s, amount) == Ok(w, Strategy_previewWithdraw(w, s, amount))

WithdrawFromStrategyKeepingRecord(w, strategy, amount) ==
    IF ~w.strategyInfo[strategy].isActive THEN Fail(w, "not active strategy")
    ELSE IF ~(amount > 0) THEN Fail(w, "zero amount")
    ELSE LET balanceBefore == w.bal[Vault]
             ourShares == Strategy_balanceOf(w, strategy, Vault)
             Redeemed(r) ==
                 IF ~r.ok THEN r
                 ELSE LET actualWithdrawn == r.w.bal[Vault] - balanceBefore
                      IN  Ok(Emit(r.w, [ev |-> "FundsWithdrawnFromStrategy",
                                        s |-> strategy, amt |-> actualWithdrawn]),
                             actualWithdrawn)
             Previewed(p) ==
                 IF ~p.ok THEN Ok(w, 0)
                 ELSE LET shares == IF p.ret > ourShares THEN ourShares ELSE p.ret
                      IN  Redeemed(Strategy_redeem(w, strategy, Vault, shares))
         IN  Previewed(Strategy_previewWithdrawCall(w, strategy, amount))

WithdrawFromStrategy(w, strategy, amount) ==
    IF ~w.strategyInfo[strategy].isActive THEN Fail(w, "not active strategy")
    ELSE IF ~(amount > 0) THEN Fail(w, "zero amount")
    ELSE LET balanceBefore == w.bal[Vault]
             ourShares == Strategy_balanceOf(w, strategy, Vault)
             \* after redeem: the bookkeeping
             Redeemed(r) ==
                 IF ~r.ok THEN r
                 ELSE LET actualWithdrawn == r.w.bal[Vault] - balanceBefore
                          dep == r.w.strategyInfo[strategy].totalDeposited
                          w2 == [r.w EXCEPT !.strategyInfo[strategy].totalDeposited =
                                    IF actualWithdrawn > dep THEN 0 ELSE dep - actualWithdrawn]
                      IN  Ok(Emit(w2, [ev |-> "FundsWithdrawnFromStrategy",
                                       s |-> strategy, amt |-> actualWithdrawn]),
                             actualWithdrawn)
             \* after try previewWithdraw: cap the shares and redeem them
             Previewed(p) ==
                 IF ~p.ok THEN Ok(w, 0)
                 ELSE LET shares == IF p.ret > ourShares THEN ourShares ELSE p.ret
                      IN  Redeemed(Strategy_redeem(w, strategy, Vault, shares))
         IN  Previewed(Strategy_previewWithdrawCall(w, strategy, amount))

EmergencyWithdrawFromStrategy(w, strategy) ==
    LET shares == Strategy_balanceOf(w, strategy, Vault)
        \* catch of the redeem: try emergencyWithdrawToVault
        Fallback(e) ==
            IF e.ok THEN [e.w EXCEPT !.strategyInfo[strategy].totalDeposited = 0]
            ELSE w
        Tried(r) ==
            IF r.ok THEN [r.w EXCEPT !.strategyInfo[strategy].totalDeposited = 0]
            ELSE Fallback(Strategy_emergencyWithdrawToVault(w, strategy, Vault))
    IN  IF ~(shares > 0) THEN w
        ELSE Tried(Strategy_redeem(w, strategy, Vault, shares))

RECURSIVE AutoDeployLoop(_, _, _)
AutoDeployLoop(w, i, deployableAmount) ==
    IF i > Len(w.strategies) THEN Ok(w, 0)
    ELSE LET strategy == w.strategies[i]
             info == w.strategyInfo[strategy]
             targetAmount == MulDiv(deployableAmount, info.targetAllocation, MaxBps, FALSE)
             currentAmount == info.totalDeposited
             \* next iteration, unless the call reverted
             Continue(r) ==
                 IF ~r.ok THEN r ELSE AutoDeployLoop(r.w, i + 1, deployableAmount)
         IN  IF ~info.isActive THEN Continue(Ok(w, 0))
             ELSE IF targetAmount > currentAmount
             THEN LET toDeposit == Min(targetAmount - currentAmount, w.bal[Vault])
                  IN  IF toDeposit > 0
                      THEN Continue(DepositToStrategy(w, strategy, toDeposit))
                      ELSE Continue(Ok(w, 0))
             ELSE IF targetAmount < currentAmount
             THEN Continue(WithdrawFromStrategy(w, strategy, currentAmount - targetAmount))
             ELSE Continue(Ok(w, 0))

AutoDeployFundsOnTotal(w) ==
    LET totalFunds == Vault_totalAssets(w)
    IN  IF totalFunds <= minLiquidity THEN Ok(w, 0)
        ELSE AutoDeployLoop(w, 1, totalFunds)

AutoDeployFunds(w) ==
    LET totalFunds == Vault_totalAssets(w)
    IN  IF totalFunds <= minLiquidity THEN Ok(w, 0)
        ELSE AutoDeployLoop(w, 1, totalFunds - minLiquidity)

AfterDeposit(w) == AutoDeployFunds(w)

RECURSIVE WithdrawLoopAskingAll(_, _, _, _)
WithdrawLoopAskingAll(w, i, needed, withdrawn) ==
    IF ~(i <= Len(w.strategies) /\ withdrawn < needed) THEN Ok(w, withdrawn)
    ELSE LET strategy == w.strategies[i]
             toWithdraw == Min(needed, w.strategyInfo[strategy].totalDeposited)
             Continue(r) ==
                 IF ~r.ok THEN r
                 ELSE WithdrawLoopAskingAll(r.w, i + 1, needed, withdrawn + r.ret)
         IN  IF ~w.strategyInfo[strategy].isActive THEN Continue(Ok(w, 0))
             ELSE IF toWithdraw > 0
             THEN Continue(WithdrawFromStrategy(w, strategy, toWithdraw))
             ELSE Continue(Ok(w, 0))

\* the loop of _withdrawFromStrategies; returns the accumulated `withdrawn`
RECURSIVE WithdrawLoop(_, _, _, _)
WithdrawLoop(w, i, needed, withdrawn) ==
    IF ~(i <= Len(w.strategies) /\ withdrawn < needed) THEN Ok(w, withdrawn)
    ELSE LET strategy == w.strategies[i]
             toWithdraw == Min(needed - withdrawn, w.strategyInfo[strategy].totalDeposited)
             \* withdrawn += actualWithdrawn and next iteration, unless the call reverted
             Continue(r) ==
                 IF ~r.ok THEN r
                 ELSE WithdrawLoop(r.w, i + 1, needed, withdrawn + r.ret)
         IN  IF ~w.strategyInfo[strategy].isActive THEN Continue(Ok(w, 0))
             ELSE IF toWithdraw > 0
             THEN Continue(WithdrawFromStrategy(w, strategy, toWithdraw))
             ELSE Continue(Ok(w, 0))

WithdrawFromStrategiesNoRequire(w, needed) ==
    WithdrawLoop(w, 1, needed, 0)

WithdrawFromStrategies(w, needed) ==
    LET Require(r) ==
            IF ~r.ok THEN r
            ELSE IF r.ret >= needed THEN r
            ELSE Fail(r.w, "insufficient strategy liquidity")
    IN  Require(WithdrawLoop(w, 1, needed, 0))

BeforeWithdrawIgnoringBuffer(w, assets) ==
    IF assets > 0 THEN WithdrawFromStrategies(w, assets) ELSE Ok(w, 0)

BeforeWithdraw(w, assets) ==
    IF w.bal[Vault] < assets
    THEN WithdrawFromStrategies(w, assets - w.bal[Vault])
    ELSE Ok(w, 0)

---------------------------------------------------------------------------
\* USDCVault: ERC-4626 entry points (receiver = owner_ = caller)

\* ERC4626._deposit on the vault
Vault_pull(w, caller, assets, shares) ==
    LET Mint(t) ==
            IF ~t.ok THEN t
            ELSE Ok(Emit([t.w EXCEPT !.vShares[caller] = @ + shares, !.vSupply = @ + shares],
                         [ev |-> "Deposit", s |-> caller, amt |-> assets]), 0)
    IN  Mint(TokenTransferFrom(w, Vault, caller, Vault, assets))

Vault_pushKeepingSupply(w, caller, assets, shares) ==
    IF w.vShares[caller] < shares THEN Fail(w, "ERC20InsufficientBalance")
    ELSE LET w1 == [w EXCEPT !.vShares[caller] = @ - shares]
             Sent(t) ==
                 IF ~t.ok THEN t
                 ELSE Ok(Emit(t.w, [ev |-> "Withdraw", s |-> caller, amt |-> assets]), 0)
         IN  Sent(TokenTransfer(w1, Vault, caller, assets))

\* ERC4626._withdraw on the vault
Vault_push(w, caller, assets, shares) ==
    IF w.vShares[caller] < shares THEN Fail(w, "ERC20InsufficientBalance")
    ELSE LET w1 == [w EXCEPT !.vShares[caller] = @ - shares, !.vSupply = @ - shares]
             Sent(t) ==
                 IF ~t.ok THEN t
                 ELSE Ok(Emit(t.w, [ev |-> "Withdraw", s |-> caller, amt |-> assets]), 0)
         IN  Sent(TokenTransfer(w1, Vault, caller, assets))

Vault_depositWhilePaused(w, caller, assets) ==
    LET shares == Vault_previewDeposit(w, assets)
        Hook(r) == IF ~r.ok THEN r ELSE Returning(AfterDeposit(r.w), shares)
    IN  Hook(Vault_pull(w, caller, assets, shares))

Vault_depositRoundingUp(w, caller, assets) ==
    IF w.paused THEN Fail(w, "EnforcedPause")
    ELSE IF assets > Vault_maxDeposit(w) THEN Fail(w, "ERC4626ExceededMaxDeposit")
    ELSE LET shares == Vault_previewWithdraw(w, assets)
             Hook(r) == IF ~r.ok THEN r ELSE Returning(AfterDeposit(r.w), shares)
         IN  Hook(Vault_pull(w, caller, assets, shares))

Vault_deposit(w, caller, assets) ==
    IF w.paused THEN Fail(w, "EnforcedPause")
    ELSE IF assets > Vault_maxDeposit(w) THEN Fail(w, "ERC4626ExceededMaxDeposit")
    ELSE LET shares == Vault_previewDeposit(w, assets)
             \* shares = super.deposit(...); _afterDeposit(assets); return shares
             Hook(r) == IF ~r.ok THEN r ELSE Returning(AfterDeposit(r.w), shares)
         IN  Hook(Vault_pull(w, caller, assets, shares))

Vault_mintRoundingDown(w, caller, shares) ==
    IF w.paused THEN Fail(w, "EnforcedPause")
    ELSE IF shares > Vault_maxMint(w) THEN Fail(w, "ERC4626ExceededMaxMint")
    ELSE LET assets == Vault_previewRedeem(w, shares)
             Hook(r) == IF ~r.ok THEN r ELSE Returning(AfterDeposit(r.w), assets)
         IN  Hook(Vault_pull(w, caller, assets, shares))

Vault_mint(w, caller, shares) ==
    IF w.paused THEN Fail(w, "EnforcedPause")
    ELSE IF shares > Vault_maxMint(w) THEN Fail(w, "ERC4626ExceededMaxMint")
    ELSE LET assets == Vault_previewMint(w, shares)
             \* assets = super.mint(...); _afterDeposit(assets); return assets
             Hook(r) == IF ~r.ok THEN r ELSE Returning(AfterDeposit(r.w), assets)
         IN  Hook(Vault_pull(w, caller, assets, shares))

Vault_withdrawWhenNotPaused(w, caller, assets) ==
    IF w.paused THEN Fail(w, "EnforcedPause")
    ELSE LET Super(b) ==
                 IF ~b.ok THEN b
                 ELSE IF assets > Vault_maxWithdraw(b.w, caller)
                      THEN Fail(b.w, "ERC4626ExceededMaxWithdraw")
                 ELSE LET shares == Vault_previewWithdraw(b.w, assets)
                      IN  Returning(Vault_push(b.w, caller, assets, shares), shares)
         IN  Super(BeforeWithdraw(w, assets))

Vault_withdrawRoundingDown(w, caller, assets) ==
    LET Super(b) ==
            IF ~b.ok THEN b
            ELSE IF assets > Vault_maxWithdraw(b.w, caller)
                 THEN Fail(b.w, "ERC4626ExceededMaxWithdraw")
            ELSE LET shares == Vault_previewDeposit(b.w, assets)
                 IN  Returning(Vault_push(b.w, caller, assets, shares), shares)
    IN  Super(BeforeWithdraw(w, assets))

Vault_withdraw(w, caller, assets) ==
    LET \* super.withdraw(assets, receiver, owner_) after _beforeWithdraw(assets)
        Super(b) ==
            IF ~b.ok THEN b
            ELSE IF assets > Vault_maxWithdraw(b.w, caller)
                 THEN Fail(b.w, "ERC4626ExceededMaxWithdraw")
            ELSE LET shares == Vault_previewWithdraw(b.w, assets)
                 IN  Returning(Vault_push(b.w, caller, assets, shares), shares)
    IN  Super(BeforeWithdraw(w, assets))

Vault_redeem(w, caller, shares) ==
    LET \* super.redeem(shares, receiver, owner_) after _beforeWithdraw(assets)
        Super(b) ==
            IF ~b.ok THEN b
            ELSE IF shares > Vault_maxRedeem(b.w, caller)
                 THEN Fail(b.w, "ERC4626ExceededMaxRedeem")
            ELSE LET assets == Vault_previewRedeem(b.w, shares)
                 IN  Returning(Vault_push(b.w, caller, assets, shares), assets)
    IN  Super(BeforeWithdraw(w, Vault_previewRedeem(w, shares)))

---------------------------------------------------------------------------
\* USDCVault: owner operations

Vault_setEmergencyShutdown(w, caller, shutdown) ==
    IF caller # Owner THEN Fail(w, "OwnableUnauthorizedAccount")
    ELSE IF shutdown /\ w.paused THEN Fail(w, "EnforcedPause")
    ELSE IF ~shutdown /\ ~w.paused THEN Fail(w, "ExpectedPause")
    ELSE Ok(Emit([w EXCEPT !.paused = shutdown],
                 [ev |-> "EmergencyShutdownUpdated", s |-> Vault, amt |-> 0]), 0)

IsActive(w, a) == a \in Strategies /\ w.strategyInfo[a].isActive

Vault_addStrategyNoActiveCheck(w, caller, strategy, targetAllocation) ==
    IF caller # Owner THEN Fail(w, "OwnableUnauthorizedAccount")
    ELSE IF strategy = ZeroAddress THEN Fail(w, "invalid strategy")
    ELSE IF ~(targetAllocation <= MaxBps) THEN Fail(w, "allocation > 100%")
    ELSE IF ~(w.totalAllocation + targetAllocation <= MaxBps)
         THEN Fail(w, "total allocation > 100%")
    ELSE LET w1 == [w EXCEPT
                      !.strategyInfo[strategy] =
                          [targetAllocation |-> targetAllocation,
                           totalDeposited |-> 0, isActive |-> TRUE],
                      !.totalAllocation = @ + targetAllocation,
                      !.strategies = Append(@, strategy)]
             w2 == TokenApprove(w1, strategy, UintMax)
         IN  Ok(Emit(w2, [ev |-> "StrategyAdded", s |-> strategy, amt |-> targetAllocation]), 0)

Vault_addStrategy(w, caller, strategy, targetAllocation) ==
    IF caller # Owner THEN Fail(w, "OwnableUnauthorizedAccount")
    ELSE IF strategy = ZeroAddress THEN Fail(w, "invalid strategy")
    ELSE IF IsActive(w, strategy) THEN Fail(w, "already added")
    ELSE IF ~(targetAllocation <= MaxBps) THEN Fail(w, "allocation > 100%")
    ELSE IF ~(w.totalAllocation + targetAllocation <= MaxBps)
         THEN Fail(w, "total allocation > 100%")
    ELSE LET w1 == [w EXCEPT
                      !.strategyInfo[strategy] =
                          [targetAllocation |-> targetAllocation,
                           totalDeposited |-> 0, isActive |-> TRUE],
                      !.totalAllocation = @ + targetAllocation,
                      !.strategies = Append(@, strategy)]
             w2 == TokenApprove(w1, strategy, UintMax)
         IN  Ok(Emit(w2, [ev |-> "StrategyAdded", s |-> strategy, amt |-> targetAllocation]), 0)

\* index of the first occurrence of x in seq, 0 when absent
IndexOf(seq, x) ==
    IF \E i \in 1..Len(seq) : seq[i] = x
    THEN CHOOSE i \in 1..Len(seq) : seq[i] = x /\ \A j \in 1..(i - 1) : seq[j] # x
    ELSE 0

\* swap & pop
SwapAndPop(seq, i) ==
    LET len == Len(seq)
        moved == IF i # len THEN [seq EXCEPT ![i] = seq[len]] ELSE seq
    IN  SubSeq(moved, 1, len - 1)

Vault_removeStrategyKeepApproval(w, caller, strategy) ==
    IF caller # Owner THEN Fail(w, "OwnableUnauthorizedAccount")
    ELSE IF ~IsActive(w, strategy) THEN Fail(w, "not a strategy")
    ELSE LET \* the registry update, after the emergency withdrawal (if any)
             Unregister(w1) ==
                 LET oldAllocation == w1.strategyInfo[strategy].targetAllocation
                     w2 == [w1 EXCEPT !.totalAllocation = @ - oldAllocation,
                                      !.strategyInfo[strategy].isActive = FALSE]
                     w3 == w2
                     i == IndexOf(w3.strategies, strategy)
                 IN  IF i = 0 THEN Fail(w3, "remove failed")
                     ELSE Ok(Emit([w3 EXCEPT !.strategies = SwapAndPop(@, i)],
                                  [ev |-> "StrategyRemoved", s |-> strategy, amt |-> 0]), 0)
         IN  Unregister(IF w.strategyInfo[strategy].totalDeposited > 0
                        THEN EmergencyWithdrawFromStrategy(w, strategy)
                        ELSE w)

Vault_removeStrategyKeepListed(w, caller, strategy) ==
    IF caller # Owner THEN Fail(w, "OwnableUnauthorizedAccount")
    ELSE IF ~IsActive(w, strategy) THEN Fail(w, "not a strategy")
    ELSE LET Unregister(w1) ==
                 LET oldAllocation == w1.strategyInfo[strategy].targetAllocation
                     w2 == [w1 EXCEPT !.totalAllocation = @ - oldAllocation,
                                      !.strategyInfo[strategy].isActive = FALSE]
                     w3 == TokenApprove(w2, strategy, 0)
                 IN  Ok(Emit(w3, [ev |-> "StrategyRemoved", s |-> strategy, amt |-> 0]), 0)
         IN  Unregister(IF w.strategyInfo[strategy].totalDeposited > 0
                        THEN EmergencyWithdrawFromStrategy(w, strategy)
                        ELSE w)

Vault_removeStrategy(w, caller, strategy) ==
    IF caller # Owner THEN Fail(w, "OwnableUnauthorizedAccount")
    ELSE IF ~IsActive(w, strategy) THEN Fail(w, "not a strategy")
    ELSE LET \* the registry update, after the emergency withdrawal (if any)
             Unregister(w1) ==
                 LET oldAllocation == w1.strategyInfo[strategy].targetAllocation
                     w2 == [w1 EXCEPT !.totalAllocation = @ - oldAllocation,
                                      !.strategyInfo[strategy].isActive = FALSE]
                     w3 == TokenApprove(w2, strategy, 0)
                     i == IndexOf(w3.strategies, strategy)
                 IN  IF i = 0 THEN Fail(w3, "remove failed")
                     ELSE Ok(Emit([w3 EXCEPT !.strategies = SwapAndPop(@, i)],
                                  [ev |-> "StrategyRemoved", s |-> strategy, amt |-> 0]), 0)
         IN  Unregister(IF w.strategyInfo[strategy].totalDeposited > 0
                        THEN EmergencyWithdrawFromStrategy(w, strategy)
                        ELSE w)

Vault_updateStrategyAllocationUnchecked(w, caller, strategy, newAllocation) ==
    IF caller # Owner THEN Fail(w, "OwnableUnauthorizedAccount")
    ELSE IF ~IsActive(w, strategy) THEN Fail(w, "not a strategy")
    ELSE IF ~(newAllocation <= MaxBps) THEN Fail(w, "allocation > 100%")
    ELSE LET oldAllocation == w.strategyInfo[strategy].targetAllocation
             w1 == [w EXCEPT !.totalAllocation = @ - oldAllocation + newAllocation]
         IN  Ok(Emit([w1 EXCEPT !.strategyInfo[strategy].targetAllocation = newAllocation],
                     [ev |-> "StrategyAllocationUpdated", s |-> strategy,
                      amt |-> newAllocation]), 0)

Vault_updateStrategyAllocationKeepTotal(w, caller, strategy, newAllocation) ==
    IF caller # Owner THEN Fail(w, "OwnableUnauthorizedAccount")
    ELSE IF ~IsActive(w, strategy) THEN Fail(w, "not a strategy")
    ELSE IF ~(newAllocation <= MaxBps) THEN Fail(w, "allocation > 100%")
    ELSE Ok(Emit([w EXCEPT !.strategyInfo[strategy].targetAllocation = newAllocation],
                 [ev |-> "StrategyAllocationUpdated", s |-> strategy,
                  amt |-> newAllocation]), 0)

Vault_updateStrategyAllocation(w, caller, strategy, newAllocation) ==
    IF caller # Owner THEN Fail(w, "OwnableUnauthorizedAccount")
    ELSE IF ~IsActive(w, strategy) THEN Fail(w, "not a strategy")
    ELSE IF ~(newAllocation <= MaxBps) THEN Fail(w, "allocation > 100%")
    ELSE LET oldAllocation == w.strategyInfo[strategy].targetAllocation
             w1 == [w EXCEPT !.totalAllocation = @ - oldAllocation + newAllocation]
         IN  IF ~(w1.totalAllocation <= MaxBps) THEN Fail(w1, "total allocation > 100%")
             ELSE Ok(Emit([w1 EXCEPT !.strategyInfo[strategy].targetAllocation = newAllocation],
                          [ev |-> "StrategyAllocationUpdated", s |-> strategy,
                           amt |-> newAllocation]), 0)

Vault_rebalanceAnyone(w, caller) == AutoDeployFunds(w)

Vault_rebalance(w, caller) ==
    IF caller # Owner THEN Fail(w, "OwnableUnauthorizedAccount")
    ELSE AutoDeployFunds(w)

\* `entered` is the ReentrancyGuard status at the time of the call
Vault_harvestStrategy(w, caller, strategy, entered) ==
    IF caller # Owner THEN Fail(w, "OwnableUnauthorizedAccount")
    ELSE IF entered THEN Fail(w, "ReentrancyGuardReentrantCall")
    ELSE IF ~IsActive(w, strategy) THEN Fail(w, "not a strategy")
    ELSE LET \* try strategy.harvest() / catch: pnl from the change of totalAssets
             Harvested(q, h) ==
                 LET w1 == IF h.ok THEN h.w ELSE w
                     pnl == IF h.ok THEN h.ret
                            ELSE Strategy_totalAssets(w1, strategy) - q.ret
                 IN  Ok(Emit(w1, [ev |-> "StrategyHarvested", s |-> strategy, amt |-> pnl]),
                        pnl)
             Measured(q) ==
                 IF ~q.ok THEN Ok(w, 0)
                 ELSE Harvested(q, Strategy_harvest(w, strategy, Vault))
         IN  Measured(Strategy_totalAssetsCall(w, strategy))

\* the loop of harvestAll: this.harvestStrategy is an external call made by
\* the vault itself while the guard is entered
RECURSIVE HarvestLoop(_, _, _)
HarvestLoop(w, i, totalPnl) ==
    IF i > Len(w.strategies) THEN Ok(w, totalPnl)
    ELSE LET strategy == w.strategies[i]
             \* try this.harvestStrategy(strategy) / catch { continue }
             Tried(r) ==
                 IF r.ok THEN HarvestLoop(r.w, i + 1, totalPnl + r.ret)
                 ELSE HarvestLoop(w, i + 1, totalPnl)
         IN  IF ~w.strategyInfo[strategy].isActive THEN HarvestLoop(w, i + 1, totalPnl)
             ELSE Tried(Vault_harvestStrategy(w, Vault, strategy, TRUE))

Vault_harvestAll(w, caller) ==
    IF caller # Owner THEN Fail(w, "OwnableUnauthorizedAccount")
    ELSE HarvestLoop(w, 1, 0)

---------------------------------------------------------------------------
\* Transactions

NoInfo == [targetAllocation |-> 0, totalDeposited |-> 0, isActive |-> FALSE]

Init ==
    /\ bal = [a \in Accounts |->
                 IF a = Owner THEN InitialOwnerBalance
                 ELSE IF a \in Users THEN InitialUserBalance
                 ELSE 0]
    /\ vShares = [u \in Users |-> 0]
    /\ vSupply = 0
    /\ sShares = [s \in Strategies |-> 0]
    /\ sSupply = [s \in Strategies |-> 0]
    /\ strategyInfo = [s \in Strategies |-> NoInfo]
    /\ strategies = <<>>
    /\ totalAllocation = 0
    /\ allowance = [s \in Strategies |-> 0]
    /\ paused = FALSE
    /\ sPaused = [s \in Strategies |-> FALSE]
    /\ nonce = 0
    /\ last = [op |-> "constructor", caller |-> Owner, target |-> Vault, amount |-> 0,
               ok |-> TRUE, err |-> "", ret |-> 0, log |-> <<>>, moved |-> TRUE]

\* every share supply stays below the range the products are computed in
InRange(w) ==
    /\ w.vSupply < Sat
    /\ \A s \in Strategies : w.sSupply[s] < Sat

\* the contracts' storage, without the transaction log
Storage(w) == [w EXCEPT !.log = <<>>]

\* the transaction committed and changed storage
Moves(r) == r.ok /\ Storage(r.w) # World

\* A transaction either commits the world it computed or, when it reverts,
\* leaves every contract's storage as it was.  `nonce` counts the transactions
\* that changed storage.  A transaction that left storage as it was (it
\* reverted, or it moved nothing) is recorded in `last` and not continued
\* from: the transactions that can follow it are those that can follow the
\* state it was sent in, and they are taken from there.
Commit(op, caller, target, amount, r) ==
    /\ last.moved
    /\ Moves(r) => (nonce < MaxOps /\ InRange(r.w))
    /\ nonce' = IF Moves(r) THEN nonce + 1 ELSE nonce
    /\ last' = [op |-> op, caller |-> caller, target |-> target, amount |-> amount,
                ok |-> r.ok, err |-> r.err, ret |-> r.ret, log |-> r.w.log,
                moved |-> Moves(r)]
    /\ bal' = IF r.ok THEN r.w.bal ELSE bal
    /\ vShares' = IF r.ok THEN r.w.vShares ELSE vShares
    /\ vSupply' = IF r.ok THEN r.w.vSupply ELSE vSupply
    /\ sShares' = IF r.ok THEN r.w.sShares ELSE sShares
    /\ sSupply' = IF r.ok THEN r.w.sSupply ELSE sSupply
    /\ strategyInfo' = IF r.ok THEN r.w.strategyInfo ELSE strategyInfo
    /\ strategies' = IF r.ok THEN r.w.strategies ELSE strategies
    /\ totalAllocation' = IF r.ok THEN r.w.totalAllocation ELSE totalAllocation
    /\ allowance' = IF r.ok THEN r.w.allowance ELSE allowance
    /\ paused' = IF r.ok THEN r.w.paused ELSE paused
    /\ sPaused' = IF r.ok THEN r.w.sPaused ELSE sPaused

deposit ==
    \E in \in DepositInputs :
        Commit("deposit", in[1], Vault, in[2], Vault_deposit(World, in[1], in[2]))

mint ==
    \E in \in MintInputs :
        Commit("mint", in[1], Vault, in[2], Vault_mint(World, in[1], in[2]))

withdraw ==
    \E in \in WithdrawInputs :
        Commit("withdraw", in[1], Vault, in[2], Vault_withdraw(World, in[1], in[2]))

redeem ==
    \E c \in Users : \E a \in RedeemAmounts \cup {vShares[c]} :
        Commit("redeem", c, Vault, a, Vault_redeem(World, c, a))

setEmergencyShutdown ==
    \E c \in Callers, b \in BOOLEAN :
        Commit("setEmergencyShutdown", c, Vault, IF b THEN 1 ELSE 0,
               Vault_setEmergencyShutdown(World, c, b))

addStrategy ==
    \E in \in RegistryInputs :
        Commit("addStrategy", in[1], in[2], in[3],
               Vault_addStrategy(World, in[1], in[2], in[3]))

removeStrategy ==
    \E in \in StrategyRefs :
        Commit("removeStrategy", in[1], in[2], 0, Vault_removeStrategy(World, in[1], in[2]))

updateStrategyAllocation ==
    \E in \in UpdateInputs :
        Commit("updateStrategyAllocation", in[1], in[2], in[3],
               Vault_updateStrategyAllocation(World, in[1], in[2], in[3]))

rebalance ==
    \E c \in Callers :
        Commit("rebalance", c, Vault, 0, Vault_rebalance(World, c))

harvestAll ==
    \E c \in Callers :
        Commit("harvestAll", c, Vault, 0, Vault_harvestAll(World, c))

harvestStrategy ==
    \E in \in StrategyRefs :
        Commit("harvestStrategy", in[1], in[2], 0,
               Vault_harvestStrategy(World, in[1], in[2], FALSE))

strategyDeposit ==
    \E in \in DirectInputs :
        Commit("strategy.deposit", in[1], in[2], in[3],
               Strategy_deposit(World, in[2], in[1], in[3]))

strategyMint ==
    \E in \in DirectInputs :
        Commit("strategy.mint", in[1], in[2], in[3],
               Strategy_mint(World, in[2], in[1], in[3]))

strategyWithdraw ==
    \E in \in DirectInputs :
        Commit("strategy.withdraw", in[1], in[2], in[3],
               Strategy_withdraw(World, in[2], in[1], in[3]))

strategyRedeem ==
    \E in \in DirectInputs :
        Commit("strategy.redeem", in[1], in[2], in[3],
               Strategy_redeem(World, in[2], in[1], in[3]))

strategyHarvest ==
    \E in \in StrategyOwnerInputs :
        Commit("strategy.harvest", in[1], in[2], 0, Strategy_harvest(World, in[2], in[1]))

strategySetEmergencyShutdown ==
    \E in \in StrategyOwnerInputs, b \in BOOLEAN :
        Commit("strategy.setEmergencyShutdown", in[1], in[2], IF b THEN 1 ELSE 0,
               Strategy_setEmergencyShutdown(World, in[2], in[1], b))

emergencyWithdrawToVault ==
    \E in \in StrategyOwnerInputs :
        Commit("strategy.emergencyWithdrawToVault", in[1], in[2], 0,
               Strategy_emergencyWithdrawToVault(World, in[2], in[1]))

drip ==
    \E in \in DripInputs :
        Commit("strategy.drip", in[1], in[2], in[3],
               Strategy_drip(World, in[2], in[1], in[3]))

skim ==
    \E in \in SkimInputs :
        Commit("strategy.skim", in[1], in[2], in[3],
               Strategy_skim(World, in[2], in[1], Owner, in[3]))

Next ==
    \/ deposit
    \/ mint
    \/ withdraw
    \/ redeem
    \/ setEmergencyShutdown
    \/ addStrategy
    \/ removeStrategy
    \/ updateStrategyAllocation
    \/ rebalance
    \/ harvestAll
    \/ harvestStrategy
    \/ strategyDeposit
    \/ strategyMint
    \/ strategyWithdraw
    \/ strategyRedeem
    \/ strategyHarvest
    \/ strategySetEmergencyShutdown
    \/ emergencyWithdrawToVault
    \/ drip
    \/ skim

Spec == Init /\ [][Next]_vars

TypeOK ==
    /\ \A a \in Accounts : bal[a] \in Nat
    /\ \A u \in Users : vShares[u] \in Nat
    /\ vSupply \in Nat
    /\ \A s \in Strategies : sShares[s] \in Nat /\ sSupply[s] \in Nat
    /\ nonce \in 0..MaxOps

---------------------------------------------------------------------------
\* Properties

StorageVars == <<bal, vShares, vSupply, sShares, sSupply, strategyInfo, strategies,
                 totalAllocation, allowance, paused, sPaused>>

ActiveStrategies == {s \in Strategies : strategyInfo[s].isActive}

RECURSIVE SumWeights(_)
SumWeights(S) ==
    IF S = {} THEN 0
    ELSE LET s == CHOOSE x \in S : TRUE
         IN  strategyInfo[s].targetAllocation + SumWeights(S \ {s})

\* C1: in every reachable state the weights of the active strategies add up
\* to totalAllocation, and totalAllocation is at most 10000.
C1_AllocationSum ==
    /\ SumWeights(ActiveStrategies) = totalAllocation
    /\ totalAllocation <= MaxBps

\* a rejected reweighting with two strategies registered
C1_Witness ==
    /\ last.op = "updateStrategyAllocation"
    /\ last.err = "total allocation > 100%"
    /\ Cardinality(ActiveStrategies) = 2

\* the assets a withdraw / redeem call owes beyond the buffer
Shortfall(w, op, amount) ==
    (IF op = "withdraw" THEN amount ELSE Vault_previewRedeem(w, amount)) - w.bal[Vault]

\* the router exhausts the strategies without covering the shortfall
Unsourced(w, op, amount) ==
    LET needed == Shortfall(w, op, amount)
        r == WithdrawLoop(w, 1, needed, 0)
    IN  needed > 0 /\ r.ok /\ r.ret < needed

\* C2: a withdraw or redeem whose shortfall the strategies cannot cover
\* fails with the insufficient-liquidity error and leaves every balance,
\* share balance and recorded deposit as it was.
C2_ShortfallAtomic ==
    [][(last'.op \in {"withdraw", "redeem"} /\ Unsourced(World, last'.op, last'.amount))
         => (/\ ~last'.ok
             /\ last'.err = "insufficient strategy liquidity"
             /\ UNCHANGED StorageVars)]_vars

\* the failure came after both strategies had been pulled from
C2_Witness ==
    /\ last.op \in {"withdraw", "redeem"}
    /\ last.err = "insufficient strategy liquidity"
    /\ \E i, j \in 1..Len(last.log) :
          /\ last.log[i].ev = "FundsWithdrawnFromStrategy" /\ last.log[i].amt > 0
          /\ last.log[j].ev = "FundsWithdrawnFromStrategy" /\ last.log[j].amt > 0
          /\ last.log[i].s # last.log[j].s

\* C3: when no registered strategy is paused, a shareholder's redeem of
\* their entire share balance succeeds.
C3_ExitAlwaysPossible ==
    (/\ last.op = "redeem"
     /\ last.amount > 0
     /\ last.amount = vShares[last.caller]
     /\ \A s \in ActiveStrategies : ~sPaused[s])
        => last.ok

\* C4: an owner's rebalance does not revert when a registered strategy is
\* paused and rejects the deposit meant for it.
C4_RebalanceSkipsFailingStrategy ==
    (/\ last.op = "rebalance"
     /\ last.caller = Owner
     /\ \E s \in ActiveStrategies : sPaused[s])
        => last.ok

\* C5: a deposit or mint the caller can pay for, into an unpaused vault,
\* succeeds even when a registered strategy with nonzero weight is paused.
C5_DepositSurvivesPausedStrategy ==
    (/\ last.op \in {"deposit", "mint"}
     /\ ~paused
     /\ bal[last.caller] >=
            (IF last.op = "deposit" THEN last.amount
             ELSE Vault_previewMint(World, last.amount))
     /\ \E s \in ActiveStrategies :
            sPaused[s] /\ strategyInfo[s].targetAllocation > 0)
        => last.ok

\* C6: while the vault is paused every deposit and mint fails with the
\* paused-state error and changes nothing; maxDeposit and maxMint report 0
\* while paused and the maximum unsigned value otherwise.
C6_PausedBlocksDeposits ==
    [][/\ Vault_maxDeposit(World) = (IF paused THEN 0 ELSE UintMax)
       /\ Vault_maxMint(World) = (IF paused THEN 0 ELSE UintMax)
       /\ (paused /\ last'.op \in {"deposit", "mint"})
            => (/\ ~last'.ok
                /\ last'.err = "EnforcedPause"
                /\ UNCHANGED StorageVars)]_vars

\* a deposit of a positive amount was sent to the paused vault
C6_Witness ==
    /\ paused
    /\ last.op = "deposit"
    /\ last.amount > 0
    /\ last.err = "EnforcedPause"

FlipPaused(w) == [w EXCEPT !.paused = ~@]

\* the storage after the step is the storage of world w
StorageBecomes(w) ==
    /\ bal' = w.bal /\ vShares' = w.vShares /\ vSupply' = w.vSupply
    /\ sShares' = w.sShares /\ sSupply' = w.sSupply
    /\ strategyInfo' = w.strategyInfo /\ strategies' = w.strategies
    /\ totalAllocation' = w.totalAllocation /\ allowance' = w.allowance
    /\ sPaused' = w.sPaused

\* the step has the outcome r and, when r succeeded, its effect on storage
\* other than the paused flag, which the step leaves as it was
StepHasOutcome(r) ==
    /\ last'.ok = r.ok
    /\ last'.err = r.err
    /\ last'.ret = r.ret
    /\ paused' = paused
    /\ IF r.ok THEN StorageBecomes(r.w) ELSE UNCHANGED StorageVars

\* C7: a withdraw or redeem has the outcome and the effect on every balance
\* that the same call has in the state that differs only in the vault's
\* paused flag.
C7_PauseDoesNotAffectExit ==
    [][(last'.op \in {"withdraw", "redeem"})
         => StepHasOutcome(IF last'.op = "withdraw"
                           THEN Vault_withdraw(FlipPaused(World), last'.caller, last'.amount)
                           ELSE Vault_redeem(FlipPaused(World), last'.caller, last'.amount))]_vars

\* a withdrawal went through while the vault was paused
C7_Witness ==
    /\ paused
    /\ last.op \in {"withdraw", "redeem"}
    /\ last.ok
    /\ last.amount > 0

DirectOps == {"strategy.deposit", "strategy.mint", "strategy.withdraw", "strategy.redeem"}

\* C8 as claimed: a deposit, mint, withdraw or redeem sent to a strategy by
\* anyone but the vault fails with the caller-not-vault error.
C8_CallerNotVaultError ==
    (last.op \in DirectOps /\ last.caller # StrategyVault(last.target))
        => (~last.ok /\ last.err = "BaseStrategy: caller not vault")

\* C8 amended: such a call fails and changes nothing; the error is the
\* caller-not-vault error, except that deposit and mint on a paused strategy
\* fail with the paused-state error, which is checked first.
C8_OnlyVaultMovesStrategyFunds ==
    [][(last'.op \in DirectOps /\ last'.caller # StrategyVault(last'.target))
         => (/\ ~last'.ok
             /\ last'.err =
                   (IF sPaused[last'.target]
                       /\ last'.op \in {"strategy.deposit", "strategy.mint"}
                    THEN "EnforcedPause"
                    ELSE "BaseStrategy: caller not vault")
             /\ UNCHANGED StorageVars)]_vars

\* an outsider's call was rejected by a strategy that holds funds
C8_Witness ==
    /\ last.op \in DirectOps
    /\ last.caller # StrategyVault(last.target)
    /\ ~last.ok
    /\ bal[last.target] > 0

VaultOwnerOps == {"setEmergencyShutdown", "addStrategy", "removeStrategy",
                  "updateStrategyAllocation", "rebalance", "harvestAll",
                  "harvestStrategy"}
StrategyOwnerOps == {"strategy.harvest", "strategy.setEmergencyShutdown",
                     "strategy.emergencyWithdrawToVault", "strategy.drip",
                     "strategy.skim"}

\* C9: every owner-only operation of the vault and of a strategy fails and
\* changes nothing when the caller is not the owner.
C9_OwnerOnly ==
    [][(\/ last'.op \in VaultOwnerOps /\ last'.caller # Owner
        \/ last'.op \in StrategyOwnerOps /\ last'.caller # StrategyOwner(last'.target))
         => (~last'.ok /\ UNCHANGED StorageVars)]_vars

\* an outsider tried to remove a registered strategy that holds funds
C9_Witness ==
    /\ last.op = "removeStrategy"
    /\ last.caller # Owner
    /\ last.target \in ActiveStrategies
    /\ strategyInfo[last.target].totalDeposited > 0
    /\ ~last.ok

\* C10: addStrategy(s, w) by the owner fails, leaving the registry,
\* totalAllocation and the approvals as they were, if s is the zero address,
\* s is active, w > 10000 or totalAllocation + w > 10000; otherwise it
\* records s as active with weight w and nothing deposited, appends s to the
\* list and adds w to totalAllocation.
C10_AddStrategy ==
    [][(last'.op = "addStrategy" /\ last'.caller = Owner)
         => LET s == last'.target
                w == last'.amount
            IN  IF \/ s = ZeroAddress
                   \/ IsActive(World, s)
                   \/ w > MaxBps
                   \/ totalAllocation + w > MaxBps
                THEN /\ ~last'.ok
                     /\ UNCHANGED <<strategies, strategyInfo, totalAllocation, allowance>>
                ELSE /\ last'.ok
                     /\ strategyInfo'[s] = [targetAllocation |-> w, totalDeposited |-> 0,
                                            isActive |-> TRUE]
                     /\ \A o \in Strategies \ {s} : strategyInfo'[o] = strategyInfo[o]
                     /\ strategies' = Append(strategies, s)
                     /\ totalAllocation' = totalAllocation + w]_vars

\* a second strategy was appended behind the first
C10_Witness ==
    /\ last.op = "addStrategy"
    /\ last.ok
    /\ Len(strategies) = 2
    /\ strategies[2] = last.target

\* the assets and shares held anywhere: the funds
FundVars == <<bal, vShares, vSupply, sShares, sSupply>>

\* C11: updateStrategyAllocation(s, w) by the owner fails, leaving
\* totalAllocation and every strategy's entry as they were, if s is not
\* active, w > 10000 or totalAllocation - weight(s) + w > 10000; otherwise
\* it sets totalAllocation to that sum and the weight of s to w, leaving the
\* other fields and entries as they were.  Either way it moves no funds.
C11_UpdateAllocation ==
    [][(last'.op = "updateStrategyAllocation" /\ last'.caller = Owner)
         => LET s == last'.target
                w == last'.amount
            IN  /\ UNCHANGED FundVars
                /\ IF ~IsActive(World, s)
                   THEN ~last'.ok /\ UNCHANGED <<strategyInfo, totalAllocation>>
                   ELSE IF \/ w > MaxBps
                           \/ totalAllocation - strategyInfo[s].targetAllocation + w > MaxBps
                   THEN ~last'.ok /\ UNCHANGED <<strategyInfo, totalAllocation>>
                   ELSE /\ last'.ok
                        /\ totalAllocation' =
                               totalAllocation - strategyInfo[s].targetAllocation + w
                        /\ strategyInfo' =
                               [strategyInfo EXCEPT ![s].targetAllocation = w]]_vars

\* the weight of a strategy that holds deployed funds was changed while a
\* second strategy is registered
C11_Witness ==
    /\ last.op = "updateStrategyAllocation"
    /\ last.ok /\ last.moved
    /\ Cardinality(ActiveStrategies) = 2
    /\ strategyInfo[last.target].totalDeposited > 0
    /\ bal[last.target] > 0

\* the addresses in the strategy list
Listed(seq) == {seq[i] : i \in 1..Len(seq)}

\* C12: removeStrategy(s) by the owner fails and changes nothing when s is
\* not active; when it succeeds, s is inactive and off the list,
\* totalAllocation is lower by the weight s had, the vault's approval for s
\* is zero, and every other strategy keeps its entry and its place on the
\* list.
C12_RemoveStrategy ==
    [][(last'.op = "removeStrategy" /\ last'.caller = Owner)
         => LET s == last'.target
            IN  IF ~IsActive(World, s)
                THEN ~last'.ok /\ UNCHANGED StorageVars
                ELSE last'.ok =>
                       /\ ~strategyInfo'[s].isActive
                       /\ s \notin Listed(strategies')
                       /\ Listed(strategies') = Listed(strategies) \ {s}
                       /\ Len(strategies') = Len(strategies) - 1
                       /\ totalAllocation' =
                              totalAllocation - strategyInfo[s].targetAllocation
                       /\ allowance'[s] = 0
                       /\ \A o \in Strategies \ {s} :
                              strategyInfo'[o] = strategyInfo[o]]_vars

\* one of two registered strategies was removed while the other one holds
\* deployed funds
C12_Witness ==
    /\ last.op = "removeStrategy"
    /\ last.ok
    /\ Len(strategies) = 1
    /\ strategies[1] # last.target
    /\ strategyInfo[strategies[1]].isActive
    /\ strategyInfo[strategies[1]].totalDeposited > 0
    /\ bal[Vault] > 0

\* C13: in every reachable state, a removeStrategy(s) by the owner that
\* succeeds leaves the vault without shares of s and leaves the vault's
\* totalAssets not lower than it was before the removal.
C13_RemovalReturnsFunds ==
    \A s \in ActiveStrategies :
        LET After(r) ==
                r.ok => /\ r.w.sShares[s] = 0
                        /\ Vault_totalAssets(r.w) >= Vault_totalAssets(World)
        IN  After(Vault_removeStrategy(World, Owner, s))

\* the strategies' side of storage: what they hold, the shares they issued
\* and what the vault recorded about them
StrategySide == <<sShares, sSupply, strategyInfo, strategies, allowance>>

\* events of funds moving between the vault and a strategy
RouterEvents == {"FundsWithdrawnFromStrategy", "FundsDeployedToStrategy"}

\* C14: a withdraw or redeem whose asset amount the buffer covers calls no
\* strategy: every strategy's asset balance, share supply and recorded
\* deposit are unchanged by it.
C14_BufferServesWithdrawal ==
    [][(/\ last'.op \in {"withdraw", "redeem"}
        /\ Shortfall(World, last'.op, last'.amount) <= 0)
         => (/\ \A s \in Strategies : bal'[s] = bal[s]
             /\ UNCHANGED StrategySide
             /\ \A i \in 1..Len(last'.log) : last'.log[i].ev \notin RouterEvents)]_vars

\* a withdrawal of a positive amount went through without a pull while a
\* strategy holds deployed funds
C14_Witness ==
    /\ last.op \in {"withdraw", "redeem"}
    /\ last.ok
    /\ last.amount > 0
    /\ \A i \in 1..Len(last.log) : last.log[i].ev \notin RouterEvents
    /\ \E s \in ActiveStrategies : strategyInfo[s].totalDeposited > 0 /\ bal[s] > 0

\* the pulls a transaction made from strategies, in the order it made them
IsPull(e) == e.ev = "FundsWithdrawnFromStrategy"
Pulls(log) == SelectSeq(log, IsPull)

\* the amounts of the first j pulls added up
RECURSIVE SumAmt(_, _)
SumAmt(pulls, j) == IF j = 0 THEN 0 ELSE pulls[j].amt + SumAmt(pulls, j - 1)

\* what the strategy hands over when the router asks it for `ask`
PulledFor(r) == r.ret

\* the pulls of a successful withdrawal that was short of `needed` follow
\* the routing rule; the recorded deposit of a visited strategy goes down
\* by the amount pulled, stopping at zero when `clamped`
RoutedInOrder(needed, pulls, clamped) ==
    /\ SumAmt(pulls, Len(pulls)) >= needed
    /\ \A j \in 1..Len(pulls) :
          LET s == pulls[j].s
              before == SumAmt(pulls, j - 1)
              ask == Min(needed - before, strategyInfo[s].totalDeposited)
          IN  /\ IsActive(World, s)
              \* visited only while the shortfall is not covered
              /\ before < needed
              \* registry order, no funded active strategy passed over
              /\ j > 1 => IndexOf(strategies, pulls[j - 1].s) < IndexOf(strategies, s)
              /\ \A o \in ActiveStrategies :
                    (/\ IndexOf(strategies, o) < IndexOf(strategies, s)
                     /\ strategyInfo[o].totalDeposited > 0)
                        => \E i \in 1..(j - 1) : pulls[i].s = o
              \* asked for min(remaining shortfall, recorded deposit)
              /\ ask > 0
              /\ pulls[j].amt = PulledFor(WithdrawFromStrategy(World, s, ask))
              \* the strategy paid that amount and the record went down by it
              /\ bal'[s] = bal[s] - pulls[j].amt
              /\ strategyInfo'[s].totalDeposited =
                     IF clamped /\ pulls[j].amt > strategyInfo[s].totalDeposited THEN 0
                     ELSE strategyInfo[s].totalDeposited - pulls[j].amt
    \* every other strategy is untouched
    /\ \A o \in Strategies :
          (\A j \in 1..Len(pulls) : pulls[j].s # o)
              => /\ bal'[o] = bal[o]
                 /\ sShares'[o] = sShares[o]
                 /\ sSupply'[o] = sSupply[o]
                 /\ strategyInfo'[o] = strategyInfo[o]

\* the state after construction, as a world
InitWorld ==
    [bal |-> [a \in Accounts |->
                 IF a = Owner THEN InitialOwnerBalance
                 ELSE IF a \in Users THEN InitialUserBalance
                 ELSE 0],
     vShares |-> [u \in Users |-> 0], vSupply |-> 0,
     sShares |-> [s \in Strategies |-> 0], sSupply |-> [s \in Strategies |-> 0],
     strategyInfo |-> [s \in Strategies |-> NoInfo],
     strategies |-> <<>>, totalAllocation |-> 0,
     allowance |-> [s \in Strategies |-> 0],
     paused |-> FALSE, sPaused |-> [s \in Strategies |-> FALSE],
     log |-> <<>>]

\* the world a successful call leaves, with the log of the next call empty
Then(r) == Storage(r.w)

\* buffer 501 and 499 recorded in the one strategy (weight 5000): user1
\* deposited 1000998 (499 deployed) and withdrew 999998 from the buffer
Buffer501Recorded499 ==
    Then(Vault_withdraw(
           Then(Vault_deposit(
                  Then(Vault_addStrategy(InitWorld, Owner, "strat1", 5000)),
                  "user1", 1000998)),
           "user1", 999998))

\* the example: from that state a withdrawal of 800 succeeds with 299
\* pulled from the strategy, 200 left recorded and an empty buffer
Withdraw800Pulls299 ==
    LET Outcome(w, r) ==
            /\ w.bal[Vault] = 501
            /\ w.strategyInfo["strat1"].totalDeposited = 499
            /\ r.ok
            /\ Pulls(r.w.log) = <<[ev |-> "FundsWithdrawnFromStrategy",
                                   s |-> "strat1", amt |-> 299]>>
            /\ r.w.strategyInfo["strat1"].totalDeposited = 200
            /\ r.w.bal[Vault] = 0
        From(w) == Outcome(w, Vault_withdraw(w, "user1", 800))
    IN  From(Buffer501Recorded499)

IsRouterEvent(e) == e.ev \in RouterEvents
Moves_(log) == SelectSeq(log, IsRouterEvent)

\* the assets a deposit / mint call brings into the buffer before its pass
Incoming(op, amount) ==
    IF op = "deposit" THEN amount
    ELSE IF op = "mint" THEN Vault_previewMint(World, amount)
    ELSE 0

\* the pass from the i-th strategy on, with `buffer` in the vault, made
\* exactly the moves `moves` and recorded each deposit it made
RECURSIVE PassFrom(_, _, _, _)
PassFrom(i, deployable, buffer, moves) ==
    IF i > Len(strategies) THEN moves = <<>>
    ELSE LET s == strategies[i]
             recorded == strategyInfo[s].totalDeposited
             target == MulDiv(deployable, strategyInfo[s].targetAllocation, MaxBps, FALSE)
             amount == Min(target - recorded, buffer)
         IN  IF ~strategyInfo[s].isActive THEN PassFrom(i + 1, deployable, buffer, moves)
             ELSE IF recorded < target /\ amount > 0
             THEN /\ moves # <<>>
                  /\ Head(moves) = [ev |-> "FundsDeployedToStrategy", s |-> s, amt |-> amount]
                  /\ strategyInfo'[s].totalDeposited = recorded + amount
                  /\ bal'[s] = bal[s] + amount
                  /\ PassFrom(i + 1, deployable, buffer - amount, Tail(moves))
             ELSE IF recorded > target
             THEN /\ moves # <<>>
                  /\ Head(moves).ev = "FundsWithdrawnFromStrategy"
                  /\ Head(moves).s = s
                  /\ PassFrom(i + 1, deployable, buffer + Head(moves).amt, Tail(moves))
             ELSE /\ strategyInfo'[s] = strategyInfo[s]
                  /\ bal'[s] = bal[s]
                  /\ PassFrom(i + 1, deployable, buffer, moves)

\* a successful rebalance, deposit or mint made the pass the rule describes
PassAsRuled(op, amount, moves) ==
    LET total == Vault_totalAssets(World) + Incoming(op, amount)
    IN  IF total <= minLiquidity
        THEN /\ moves = <<>>
             /\ UNCHANGED StrategySide
             /\ \A s \in Strategies : bal'[s] = bal[s]
        ELSE PassFrom(1, total - minLiquidity, bal[Vault] + Incoming(op, amount), moves)

\* the vault with one strategy at 5000 bps and a depositor holding 1000
\* units (a unit is 10^6, the value of minLiquidity)
EmptyVaultHalfWeight ==
    Then(Vault_addStrategy([InitWorld EXCEPT !.bal["user1"] = 1000 * minLiquidity],
                           Owner, "strat1", 5000))

\* the deposit of the 1000 units leaves `inStrategy` in the strategy and
\* `inBuffer` in the buffer (the claim formulas evaluate it on the steps
\* that leave the initial state, where the vault is empty)
Deposit1000Leaves(inStrategy, inBuffer) ==
    LET Outcome(r) ==
            /\ r.ok
            /\ r.w.bal["strat1"] = inStrategy
            /\ r.w.strategyInfo["strat1"].totalDeposited = inStrategy
            /\ r.w.bal[Vault] = inBuffer
    IN  Outcome(Vault_deposit(EmptyVaultHalfWeight, "user1", 1000 * minLiquidity))

C17_BufferPreserved ==
    [][(/\ last'.op \in {"rebalance", "deposit", "mint"}
        /\ last'.ok
        /\ Vault_totalAssets(World) + Incoming(last'.op, last'.amount) > minLiquidity)
            => bal'[Vault] >= minLiquidity]_vars

\* the sum of the live totalAssets() of a set of strategies
RECURSIVE LiveAssets(_, _)
LiveAssets(w, set) ==
    IF set = {} THEN 0
    ELSE LET s == CHOOSE x \in set : TRUE
         IN  Strategy_totalAssets(w, s) + LiveAssets(w, set \ {s})

Active(w) == {s \in Strategies : w.strategyInfo[s].isActive}

BufferPlusLive(w) == Vault_totalAssets(w) = w.bal[Vault] + LiveAssets(w, Active(w))

\* C18: the vault's totalAssets() is its own balance plus the live
\* totalAssets() of every active strategy (the recorded deposit stands in
\* only for a strategy whose query fails, which the strategies of this
\* repository never do); removed strategies contribute nothing; and a drip
\* of y into an active strategy raises the vault's totalAssets() by exactly y.
C18_TotalAssets ==
    [][/\ BufferPlusLive(World)
       /\ \A s \in Strategies \ ActiveStrategies :
              Vault_totalAssets([World EXCEPT !.bal[s] = @ + 1]) = Vault_totalAssets(World)
       /\ (last'.op = "strategy.drip" /\ last'.ok /\ last'.target \in ActiveStrategies)
            => Vault_totalAssets([World EXCEPT !.bal = bal', !.strategyInfo = strategyInfo',
                                               !.strategies = strategies'])
                 = Vault_totalAssets(World) + last'.amount]_vars

\* yield was dripped into an active strategy holding deposits of the vault,
\* so that the strategy's live assets exceed the recorded deposit
C18_Witness ==
    /\ last.op = "strategy.drip"
    /\ last.ok
    /\ last.target \in ActiveStrategies
    /\ strategyInfo[last.target].totalDeposited > 0
    /\ bal[last.target] >= strategyInfo[last.target].totalDeposited + last.amount
    /\ Vault_totalAssets(World) > bal[Vault] + strategyInfo[last.target].totalDeposited

\* amounts deposited in the round trip
RoundTripAmounts == {1, 700000}

\* C19: in any reachable state, a participant who deposits A and at once
\* redeems all the shares the deposit minted gets the redeem through and
\* receives A up to a rounding error of a few smallest units (10 here).
C19_RoundTrip ==
    \A u \in Users : \A A \in RoundTripAmounts :
        LET Redeemed(r) ==
                /\ r.ok
                /\ r.ret <= A
                /\ r.ret >= A - 10
            Deposited(d) == d.ok => Redeemed(Vault_redeem(Storage(d.w), u, d.ret))
        IN  Deposited(Vault_deposit(World, u, A))

\* one whole share: 10^decimals base units (decimals = 6, MockERC20)
OneShare == 1000000
YieldAmounts == {1, 800000}

Vault_pricePerShare(w) == ConvertToAssets(OneShare, w.vSupply, Vault_totalAssets(w), FALSE)
Strategy_pricePerShare(w, s) == Strategy_previewRedeem(w, s, OneShare)

SharesUntouched(w) ==
    /\ w.vShares = vShares
    /\ w.vSupply = vSupply
    /\ w.sShares = sShares
    /\ w.sSupply = sSupply

\* the quote did not fall, and rose where `strict` (quotes at Sat are the
\* saturated ones, which cannot be compared)
Rose(before, after, strict) ==
    /\ after >= before
    /\ (strict /\ after < Sat) => after > before

\* yield y injected into strategy s, or into the vault, leaves the shares
\* alone and moves the quotes as Strict says: Strict(y, supply) tells when
\* the quote for one share has to rise strictly
YieldRaisesPrice(Strict(_, _)) ==
    LET Dripped(r, s, y, vBefore, sBefore) ==
            r.ok =>
              /\ SharesUntouched(r.w)
              /\ Rose(sBefore, Strategy_pricePerShare(r.w, s),
                      sSupply[s] > 0 /\ Strict(y, sSupply[s]))
              /\ Rose(vBefore, Vault_pricePerShare(r.w),
                      strategyInfo[s].isActive /\ vSupply > 0 /\ Strict(y, vSupply))
        Sent(t, y, vBefore) ==
            t.ok =>
              /\ SharesUntouched(t.w)
              /\ Rose(vBefore, Vault_pricePerShare(t.w), vSupply > 0 /\ Strict(y, vSupply))
              /\ \A s \in Strategies : Strategy_totalAssets(t.w, s) = Strategy_totalAssets(World, s)
        From(vBefore) ==
            \A y \in YieldAmounts :
                /\ \A s \in Strategies :
                      Dripped(Strategy_drip(World, s, Owner, y), s, y, vBefore,
                              Strategy_pricePerShare(World, s))
                /\ Sent(TokenTransfer(World, Owner, Vault, y), y, vBefore)
    IN  From(Vault_pricePerShare(World))

AnyYield(y, supply) == y > 0
YieldMovesQuote(y, supply) == y >= (supply \div OneShare) + 1

\* C20 as claimed: yield injected into a strategy (drip) or into the vault
\* never lowers convertToAssets(1 share) of the vault or of that strategy,
\* leaves all share balances unchanged, and raises convertToAssets(1 share)
\* strictly whenever yield > 0 and supply > 0.  (Evaluated in the states
\* yield is dripped from, for each amount of YieldAmounts and each place
\* the yield can go.)
C20_StrictWheneverYield ==
    [][(last'.op = "strategy.drip" /\ last'.ok) => YieldRaisesPrice(AnyYield)]_vars

\* C20 amended: the same, the rise being strict when the yield is large
\* enough to move the rounded quote, 10^6 * yield >= supply + 1 (for the
\* vault's quote: yield sent to the vault or dripped into an active strategy).
C20_MonotonicSharePrice ==
    [][(last'.op = "strategy.drip" /\ last'.ok) => YieldRaisesPrice(YieldMovesQuote)]_vars

\* yield was dripped into an active strategy while both the vault and the
\* strategy had shares outstanding
C20_Witness ==
    /\ last.op = "strategy.drip"
    /\ last.ok
    /\ last.amount > 0
    /\ strategyInfo[last.target].isActive
    /\ sSupply[last.target] > 0
    /\ vSupply > 0
    /\ Vault_pricePerShare(World) > OneShare
    /\ Strategy_pricePerShare(World, last.target) > OneShare

\* no yield (or loss) has reached the vault: every active strategy holds
\* exactly what the vault has recorded as deposited into it
NoYieldYet ==
    \A s \in ActiveStrategies : Strategy_totalAssets(World, s) = strategyInfo[s].totalDeposited

OtherUser(u) == CHOOSE x \in Users : x # u

\* C21: before any yield, a second depositor who deposits the same amount
\* as the depositor before them is minted the same number of shares; after
\* yield has been injected, two holders who redeem the same number of shares
\* from the same state receive the same amount of assets.
C21_Proportionality ==
    /\ (last.op = "deposit" /\ last.ok /\ last.caller \in Users /\ NoYieldYet) =>
          LET Second(d) == d.ok => d.ret = last.ret
          IN  Second(Vault_deposit(World, OtherUser(last.caller), last.amount))
    /\ (last.op = "strategy.drip" /\ last.ok /\ last.target \in ActiveStrategies) =>
          \A k \in RedeemAmounts :
              LET Both(r1, r2) ==
                      /\ r1.ok <=> r2.ok
                      /\ r1.ok => r1.ret = r2.ret
              IN  (vShares["user1"] >= k /\ vShares["user2"] >= k)
                    => Both(Vault_redeem(World, "user1", k), Vault_redeem(World, "user2", k))

\* two depositors deposited the same amount before the yield and hold the
\* same number of shares; after the drip each can redeem the same count
C21_Witness ==
    /\ last.op = "strategy.drip"
    /\ last.ok
    /\ last.target \in ActiveStrategies
    /\ vShares["user1"] = vShares["user2"]
    /\ \E k \in RedeemAmounts :
          /\ vShares["user1"] >= k
          /\ Vault_redeem(World, "user1", k).ok
          /\ Vault_redeem(World, "user1", k).ret > k

\* C22: in every reachable state the vault has no shares outstanding
\* exactly when totalAssets() is zero.
C22_SupplyZeroIffAssetsZero == (vSupply = 0) <=> (Vault_totalAssets(World) = 0)

RECURSIVE SumShares(_, _)
SumShares(f, set) ==
    IF set = {} THEN 0
    ELSE LET u == CHOOSE x \in set : TRUE IN f[u] + SumShares(f, set \ {u})

\* the vault ledger and each strategy ledger (whose only holder is the
\* vault) add up to their totalSupply, and no balance is negative
LedgersAddUp ==
    /\ SumShares(vShares, Users) = vSupply
    /\ \A u \in Users : vShares[u] >= 0
    /\ \A s \in Strategies : Strategy_balanceOf(World, s, Vault) = sSupply[s] /\ sShares[s] >= 0

\* C23: in every reachable state the share balances of each ledger (the
\* vault's and every strategy's) add up to its totalSupply and none is
\* negative; deposit and mint increase, withdraw and redeem decrease, the
\* caller's balance and totalSupply by the same amount.
C23_SharesSumToSupply ==
    [][/\ LedgersAddUp'
       /\ \A s \in Strategies : sShares'[s] - sShares[s] = sSupply'[s] - sSupply[s]
       /\ (last'.op \in {"deposit", "mint"} /\ last'.ok) =>
            /\ vShares'[last'.caller] - vShares[last'.caller]
                 = IF last'.op = "deposit" THEN last'.ret ELSE last'.amount
            /\ vSupply' - vSupply = vShares'[last'.caller] - vShares[last'.caller]
            /\ \A u \in Users \ {last'.caller} : vShares'[u] = vShares[u]
       /\ (last'.op \in {"withdraw", "redeem"} /\ last'.ok) =>
            /\ vShares[last'.caller] - vShares'[last'.caller]
                 = IF last'.op = "withdraw" THEN last'.ret ELSE last'.amount
            /\ vSupply - vSupply' = vShares[last'.caller] - vShares'[last'.caller]
            /\ \A u \in Users \ {last'.caller} : vShares'[u] = vShares[u]]_vars

\* a holder withdrew while the other holder and a strategy ledger also
\* hold shares
C23_Witness ==
    /\ last.op \in {"withdraw", "redeem"}
    /\ last.ok
    /\ last.amount > 0
    /\ \A u \in Users : vShares[u] > 0
    /\ \E s \in Strategies : sSupply[s] > 0

\* the deposits a step made into a ledger: the caller's deposit into the
\* vault, and a strategy's when the pass made that one move only
IssuedAs(Formula(_, _, _)) ==
    /\ (last'.op = "deposit" /\ last'.ok) =>
          /\ last'.ret = Formula(last'.amount, vSupply, Vault_totalAssets(World))
          /\ vShares'[last'.caller] = vShares[last'.caller] + last'.ret
    /\ \A s \in Strategies :
          (last'.ok /\ Moves_(last'.log)
                        = <<[ev |-> "FundsDeployedToStrategy", s |-> s,
                             amt |-> strategyInfo'[s].totalDeposited
                                       - strategyInfo[s].totalDeposited]>>) =>
              sShares'[s] - sShares[s]
                = Formula(strategyInfo'[s].totalDeposited - strategyInfo[s].totalDeposited,
                          sSupply[s], Strategy_totalAssets(World, s))

\* a shares for the first deposit into an empty ledger, floor(a * S / T)
\* for a later one; where the claim names no value (assets without shares,
\* shares without assets) the value the ledger computes
PlainRatio(a, S, T) ==
    IF S = 0 /\ T = 0 THEN a
    ELSE IF S > 0 /\ T > 0 THEN MulDiv(a, S, T, FALSE)
    ELSE MulDiv(a, S + 1, T + 1, FALSE)

OffsetRatio(a, S, T) == MulDiv(a, S + 1, T + 1, FALSE)

\* C24 as claimed: the first deposit of a into an empty ledger mints a
\* shares; a later deposit, with totalSupply S > 0 and totalAssets T read
\* just before it, mints floor(a * S / T).
C24_PlainRatioIssuance == [][IssuedAs(PlainRatio)]_vars

\* C24 amended: a deposit of a mints floor(a * (S + 1) / (T + 1)), which is
\* a for the first deposit into an empty ledger.
C24_ShareIssuance == [][IssuedAs(OffsetRatio)]_vars

\* a deposit was priced away from 1:1
C24_Witness ==
    /\ last.op = "deposit"
    /\ last.ok
    /\ last.ret > 0
    /\ last.ret < last.amount
    /\ vSupply > last.ret

\* C25: the preview calls change no state; a successful deposit(a) mints
\* exactly the previewDeposit(a) read just before the call and a successful
\* withdraw(a) burns exactly the previewWithdraw(a) read just before the
\* call, also when the withdrawal first pulls its shortfall from strategies.
C25_PreviewAccuracy ==
    [][/\ \A s \in Strategies :
              /\ Strategy_previewWithdrawCall(World, s, last'.amount).w = World
              /\ Strategy_totalAssetsCall(World, s).w = World
       /\ (last'.op = "deposit" /\ last'.ok) =>
            /\ last'.ret = Vault_previewDeposit(World, last'.amount)
            /\ vShares'[last'.caller] = vShares[last'.caller] + Vault_previewDeposit(World, last'.amount)
            /\ bal'[last'.caller] = bal[last'.caller] - last'.amount
       /\ (last'.op = "withdraw" /\ last'.ok) =>
            /\ last'.ret = Vault_previewWithdraw(World, last'.amount)
            /\ vShares'[last'.caller] = vShares[last'.caller] - Vault_previewWithdraw(World, last'.amount)
            /\ bal'[last'.caller] = bal[last'.caller] + last'.amount]_vars

\* a withdrawal priced away from 1:1 pulled its shortfall from a strategy
C25_Witness ==
    /\ last.op = "withdraw"
    /\ last.ok
    /\ last.ret # last.amount
    /\ Pulls(last.log) # <<>>

HarvestedIn(log) == {log[i].s : i \in {j \in 1..Len(log) : log[j].ev = "StrategyHarvested"}}

\* C26: harvestAll realizes yield on every active strategy and returns the
\* sum of the PnL they report; a strategy whose harvest fails is skipped and
\* the others are still harvested.  So every active strategy that
\* harvestStrategy can harvest in this state is harvested by harvestAll.
C26_HarvestAllHarvestsEach ==
    [][(last'.op = "harvestAll" /\ last'.ok) =>
          \A s \in ActiveStrategies :
              Vault_harvestStrategy(World, Owner, s, FALSE).ok => s \in HarvestedIn(last'.log)]_vars

\* the call succeeded and changed nothing
NoOp(r) == r.ok /\ Storage(r.w) = World

\* C27: in any reachable state with the ledger unpaused, deposit(0) and
\* withdraw(0) on the vault, and on a strategy when the vault calls it,
\* succeed and leave every share balance, asset balance, recorded
\* totalDeposited and strategy holding unchanged.
C27_ZeroAmountNoOp ==
    /\ ~paused => \A u \in Users : /\ NoOp(Vault_deposit(World, u, 0))
                                    /\ NoOp(Vault_withdraw(World, u, 0))
    /\ \A s \in Strategies :
          ~sPaused[s] => /\ NoOp(Strategy_deposit(World, s, Vault, 0))
                         /\ NoOp(Strategy_withdraw(World, s, Vault, 0))

\* the same world with no strategy paused
NoStrategyPaused(w) == [w EXCEPT !.sPaused = [s \in Strategies |-> FALSE]]

\* the step has the outcome r and its effect on storage, the strategies'
\* paused flags staying as they were
StepHasOutcomeButPause(r) ==
    /\ last'.ok = r.ok
    /\ last'.err = r.err
    /\ last'.ret = r.ret
    /\ sPaused' = sPaused
    /\ IF r.ok
       THEN /\ bal' = r.w.bal /\ vShares' = r.w.vShares /\ vSupply' = r.w.vSupply
            /\ sShares' = r.w.sShares /\ sSupply' = r.w.sSupply
            /\ strategyInfo' = r.w.strategyInfo /\ strategies' = r.w.strategies
            /\ totalAllocation' = r.w.totalAllocation /\ allowance' = r.w.allowance
            /\ paused' = r.w.paused
       ELSE UNCHANGED StorageVars /\ paused' = paused

\* amounts the vault would call a strategy with
ProbeAmounts == {0, 1, 400000}

\* what a paused strategy answers the vault
PausedStrategyAnswers(s) ==
    /\ Strategy_maxDeposit(World, s) = 0
    /\ Strategy_maxMint(World, s) = 0
    /\ \A a \in ProbeAmounts :
          /\ ~Strategy_deposit(World, s, Vault, a).ok
          /\ ~Strategy_mint(World, s, Vault, a).ok
    /\ Strategy_withdraw(World, s, Vault, Strategy_previewRedeem(World, s, sShares[s])).ok
    /\ Strategy_redeem(World, s, Vault, sShares[s]).ok

\* C28: while a strategy is paused, deposit and mint by the vault fail and
\* maxDeposit / maxMint report 0, while withdraw and redeem by the vault
\* still succeed; a user's withdraw or redeem on the vault has the outcome
\* and effect it has with no strategy paused, so the router still sources
\* the shortfall from a paused strategy.
C28_PausedStrategyStillPaysOut ==
    /\ [](\A s \in Strategies : sPaused[s] => PausedStrategyAnswers(s))
    /\ [][(last'.op \in {"withdraw", "redeem"} /\ \E s \in Strategies : sPaused[s]) =>
            StepHasOutcomeButPause(
                IF last'.op = "withdraw"
                THEN Vault_withdraw(NoStrategyPaused(World), last'.caller, last'.amount)
                ELSE Vault_redeem(NoStrategyPaused(World), last'.caller, last'.amount))]_vars

\* a user's withdrawal pulled its shortfall from a paused strategy
C28_Witness ==
    /\ last.op \in {"withdraw", "redeem"}
    /\ last.ok
    /\ Pulls(last.log) # <<>>
    /\ sPaused[Pulls(last.log)[1].s]
    /\ Pulls(last.log)[1].amt > 0

\* C29: emergencyWithdrawToVault called by the strategy's owner frees what
\* it can and sends the strategy's whole idle balance to the bound vault:
\* afterwards the strategy holds nothing, the vault's balance has grown by
\* exactly what the strategy held, and no strategy share was minted or
\* burned.
C29_EmergencyWithdrawToVault ==
    [][(last'.op = "strategy.emergencyWithdrawToVault" /\ last'.caller = StrategyOwner(last'.target)) =>
          /\ last'.ok
          /\ bal'[last'.target] = 0
          /\ bal'[Vault] = bal[Vault] + bal[last'.target]
          /\ \A a \in Accounts \ {Vault, last'.target} : bal'[a] = bal[a]
          /\ UNCHANGED <<sShares, sSupply, vShares, vSupply, strategyInfo>>]_vars

\* the owner evacuated a strategy that held funds for shares of the vault
C29_Witness ==
    /\ last.op = "strategy.emergencyWithdrawToVault"
    /\ last.ok
    /\ last.moved
    /\ bal[last.target] = 0
    /\ sShares[last.target] > 0
    /\ bal[Vault] >= strategyInfo[last.target].totalDeposited

\* C30: a failure of the withdraw path on an over-allocated strategy during
\* a rebalance pass (its preview or its redeem fails) is caught: the pass
\* goes on and the strategy's record is unchanged.  With the strategies of
\* this repository the case does not arise: from every reachable state the
\* withdrawal of any part of an active strategy's recorded deposit goes
\* through, so no pass meets a failing preview or redeem.
C30_WithdrawPathNeverFails ==
    \A s \in ActiveStrategies :
        \A a \in {1, strategyInfo[s].totalDeposited} :
            a > 0 => /\ Strategy_previewWithdrawCall(World, s, a).ok
                     /\ WithdrawFromStrategy(World, s, a).ok

---------------------------------------------------------------------------
\* what a strategy hands over when the vault asks it for `amount`: the
\* shares previewWithdraw quotes, capped at the vault's shares, redeemed
Recoverable(w, s, amount) ==
    Strategy_previewRedeem(w, s, Min(Strategy_previewWithdraw(w, s, amount), w.sShares[s]))

\* what the moves of a pass add to the buffer
RECURSIVE NetIntoBuffer(_)
NetIntoBuffer(moves) ==
    IF moves = <<>> THEN 0
    ELSE (IF Head(moves).ev = "FundsWithdrawnFromStrategy"
          THEN Head(moves).amt ELSE 0 - Head(moves).amt)
         + NetIntoBuffer(Tail(moves))

\* the moves of a pass that concern strategy s
MovesOf(moves, s) == LET Concerns(e) == e.s = s IN SelectSeq(moves, Concerns)

\* the pass of a successful rebalance, deposit or mint took from every
\* strategy recorded above its target what the strategy hands over for
\* (recorded - target), credited the buffer with it and lowered the record
\* by it, stopping at zero
OverAllocatedDrawnDown(op, amount, moves) ==
    LET total == Vault_totalAssets(World) + Incoming(op, amount)
    IN  /\ bal'[Vault] = bal[Vault] + Incoming(op, amount) + NetIntoBuffer(moves)
        /\ total > minLiquidity =>
             \A s \in ActiveStrategies :
                LET recorded == strategyInfo[s].totalDeposited
                    target == MulDiv(total - minLiquidity, strategyInfo[s].targetAllocation,
                                     MaxBps, FALSE)
                    recovered == Recoverable(World, s, recorded - target)
                IN  recorded > target =>
                      /\ MovesOf(moves, s) = <<[ev |-> "FundsWithdrawnFromStrategy",
                                                s |-> s, amt |-> recovered]>>
                      /\ bal'[s] = bal[s] - recovered
                      /\ strategyInfo'[s].totalDeposited =
                             IF recovered > recorded THEN 0 ELSE recorded - recovered

\* the storage a step leaves, as a world
WorldAfter ==
    [bal |-> bal', vShares |-> vShares', vSupply |-> vSupply',
     sShares |-> sShares', sSupply |-> sSupply', strategyInfo |-> strategyInfo',
     strategies |-> strategies', totalAllocation |-> totalAllocation',
     allowance |-> allowance', paused |-> paused', sPaused |-> sPaused',
     log |-> <<>>]

\* a rebalance of world w succeeds and leaves s recorded strictly lower
RebalanceLowersRecord(w, s) ==
    LET Lowered(r) ==
            /\ r.ok
            /\ r.w.strategyInfo[s].totalDeposited < w.strategyInfo[s].totalDeposited
    IN  Lowered(Vault_rebalance(w, Owner))

\* the step is a successful updateStrategyAllocation that lowered the
\* weight of a strategy with funds recorded
LoweredWeight ==
    /\ last'.op = "updateStrategyAllocation"
    /\ last'.ok
    /\ last'.amount < strategyInfo[last'.target].targetAllocation
    /\ strategyInfo[last'.target].totalDeposited > 0

\* C31 as claimed: a successful pass takes from every strategy recorded
\* above its target what the strategy hands over for (recorded - target);
\* the buffer grows by the amount recovered and the record becomes
\* max(0, recorded - recovered).  After the owner lowered the weight of a
\* strategy with funds deployed, a rebalance leaves its recorded
\* totalDeposited strictly lower.
C31_LoweredWeightLowersRecord ==
    [][/\ (last'.op \in {"rebalance", "deposit", "mint"} /\ last'.ok)
            => OverAllocatedDrawnDown(last'.op, last'.amount, Moves_(last'.log))
       /\ LoweredWeight => RebalanceLowersRecord(WorldAfter, last'.target)]_vars

\* a successful rebalance of world w leaves s, recorded above its target
\* while totalAssets exceeds minLiquidity, recorded lower by what s hands
\* over, which is strictly lower when s hands over at least one unit
RebalanceDrawsDown(w, s) ==
    LET total == Vault_totalAssets(w)
        recorded == w.strategyInfo[s].totalDeposited
        target == MulDiv(total - minLiquidity, w.strategyInfo[s].targetAllocation,
                         MaxBps, FALSE)
        recovered == Recoverable(w, s, recorded - target)
        Drawn(r) ==
            r.ok => /\ r.w.strategyInfo[s].totalDeposited =
                           IF recovered > recorded THEN 0 ELSE recorded - recovered
                    /\ recovered > 0 => r.w.strategyInfo[s].totalDeposited < recorded
        Kept(r) == r.ok /\ r.w.strategyInfo[s].totalDeposited = recorded
    IN  IF total <= minLiquidity THEN Kept(Vault_rebalance(w, Owner))
        ELSE recorded > target => Drawn(Vault_rebalance(w, Owner))

\* C31 amended: the same rule for the pass.  After the owner lowered the
\* weight of a strategy with funds deployed, a rebalance that finds
\* totalAssets above minLiquidity and the strategy recorded above its new
\* target lowers the record by the amount recovered, strictly when the
\* strategy hands over at least one unit; a rebalance that finds
\* totalAssets at or below minLiquidity leaves the record as it was.
C31_OverAllocatedDrawnDown ==
    [][/\ (last'.op \in {"rebalance", "deposit", "mint"} /\ last'.ok)
            => OverAllocatedDrawnDown(last'.op, last'.amount, Moves_(last'.log))
       /\ LoweredWeight => RebalanceDrawsDown(WorldAfter, last'.target)]_vars

\* the owner lowered a strategy's weight and the rebalance took funds back
\* from it
C31_Witness ==
    /\ last.op = "rebalance"
    /\ last.ok
    /\ Pulls(last.log) # <<>>
    /\ Pulls(last.log)[1].amt > 0
    /\ strategyInfo[Pulls(last.log)[1].s].targetAllocation = 2000
    /\ strategyInfo[Pulls(last.log)[1].s].totalDeposited > 0

---------------------------------------------------------------------------
\* the targets of the active strategies from the i-th on, for `deployable`
RECURSIVE SumTargetsFrom(_, _)
SumTargetsFrom(i, deployable) ==
    IF i > Len(strategies) THEN 0
    ELSE (IF strategyInfo[strategies[i]].isActive
          THEN MulDiv(deployable, strategyInfo[strategies[i]].targetAllocation, MaxBps, FALSE)
          ELSE 0)
         + SumTargetsFrom(i + 1, deployable)

\* what a pass that found `total` had to deploy
DeployableOf(total) == IF total <= minLiquidity THEN 0 ELSE total - minLiquidity

DeployableSamples == {1, 3, 9999, 1000001}

RegistryOps == {"addStrategy", "removeStrategy", "updateStrategyAllocation"}

\* C32: for the weights of the active strategies (their sum is at most
\* 10000) and every deployable amount, the targets
\* floor(deployable * weight / 10000) add up to at most deployable: for the
\* sample amounts whenever the registry changed the weights, and for the
\* amount a successful pass had to deploy (a pass leaves totalAssets as it
\* found it).
C32_TargetsWithinDeployable ==
    LET Within(d) == SumTargetsFrom(1, d) <= d
    IN  /\ (last.op \in RegistryOps /\ last.ok) => \A d \in DeployableSamples : Within(d)
        /\ (last.op \in {"rebalance", "deposit", "mint"} /\ last.ok)
              => Within(DeployableOf(Vault_totalAssets(World)))

\* two strategies share the whole weight and the floors of a pass left a
\* unit of an odd deployable amount unallocated
C32_Witness ==
    LET OneShort(d) == d > 0 /\ SumTargetsFrom(1, d) = d - 1
    IN  /\ last.op \in {"rebalance", "deposit", "mint"}
        /\ last.ok
        /\ Len(strategies) = 2
        /\ totalAllocation = MaxBps
        /\ OneShort(DeployableOf(Vault_totalAssets(World)))

---------------------------------------------------------------------------
\* the strategies whose own harvest ran in a transaction
RanHarvest(log) == {log[i].s : i \in {j \in 1..Len(log) : log[j].ev = "Harvest"}}

\* C33: harvestStrategy(s) called by the vault's owner on an active
\* strategy succeeds, runs the strategy's own harvest (which emits the
\* strategy's Harvest event) and returns the PnL that harvest reports; on
\* an address that is not an active strategy it fails with "not a strategy".
C33_HarvestStrategyRunsHarvest ==
    [][(last'.op = "harvestStrategy" /\ last'.caller = Owner) =>
          IF IsActive(World, last'.target)
          THEN /\ last'.ok
               /\ last'.target \in RanHarvest(last'.log)
               /\ last'.ret = Strategy_harvestHook(World, last'.target)
          ELSE ~last'.ok /\ last'.err = "not a strategy"]_vars

---------------------------------------------------------------------------
\* the records of the log
Records(log) == {log[i] : i \in 1..Len(log)}

\* the hook a strategy call of `assets` has to run left its record in the
\* transaction's log
HookRan(e, log) ==
    IF e.ev = "FundsDeployedToStrategy"
    THEN Records(Strategy_afterDeposit(World, e.s, e.amt).log) \subseteq Records(log)
    ELSE Records(Strategy_beforeWithdraw(World, e.s, e.amt).w.log) \subseteq Records(log)

\* C34: every successful deposit or mint of assets > 0 on a strategy runs
\* the deployFunds hook with that amount, and every successful withdraw or
\* redeem of assets > 0 on a strategy runs the freeFunds hook: a
\* transaction in which the vault deposited into or took funds from a
\* strategy holds the hook's call.
C34_StrategyHooksRun ==
    [][\A e \in Records(Moves_(last'.log)) : (last'.ok /\ e.amt > 0) => HookRan(e, last'.log)]_vars

---------------------------------------------------------------------------
\* from world w, participant u gains nothing by depositing `a` and at once
\* redeeming the shares minted, nor by minting `a` shares and at once
\* withdrawing the assets paid (share supplies within the range computed in)
RoundTripGainsNothing(w, u, a) ==
    LET Redeemed(r) == r.ok => r.ret <= a
        Deposited(d) == (d.ok /\ InRange(d.w)) => Redeemed(Vault_redeem(Storage(d.w), u, d.ret))
        Withdrawn(x) == x.ok => x.ret >= a
        Minted(m) == (m.ok /\ InRange(m.w)) => Withdrawn(Vault_withdraw(Storage(m.w), u, m.ret))
    IN  /\ Deposited(Vault_deposit(w, u, a))
        /\ Minted(Vault_mint(w, u, a))

\* the call that undoes the deposit or mint just made pays at most the
\* assets deposited, or burns at least the shares minted
UndoGainsNothing(r, amount) ==
    r.ok => IF last'.op = "deposit" THEN r.ret <= amount ELSE r.ret >= amount

\* C35: rounding lets no participant extract value: a deposit of a assets
\* followed at once by the redeem of the shares it minted returns at most
\* a, and a mint of s shares followed at once by the withdrawal of the
\* assets it charged burns at least s shares; this for every deposit and
\* mint made, and for sample amounts from every state that a deposit, a
\* mint, or a gain or loss of a strategy leaves.
C35_RoundingFavorsVault ==
    [][/\ (last'.op \in {"deposit", "mint"} /\ last'.ok) =>
             UndoGainsNothing(IF last'.op = "deposit"
                              THEN Vault_redeem(WorldAfter, last'.caller, last'.ret)
                              ELSE Vault_withdraw(WorldAfter, last'.caller, last'.ret),
                              last'.amount)
       /\ (last'.op \in {"deposit", "mint", "strategy.drip", "strategy.skim"} /\ last'.moved) =>
             \A u \in Users : \A a \in RoundTripAmounts :
                 RoundTripGainsNothing(WorldAfter, u, a)]_vars

\* a deposit priced away from 1:1 minted shares whose redeem, made at once,
\* goes through and pays less than was deposited
C35_Witness ==
    LET PaysLess(r) == r.ok /\ r.ret > 0 /\ r.ret < last.amount
    IN  /\ last.op = "deposit"
        /\ last.ok
        /\ last.ret > 0
        /\ last.ret # last.amount
        /\ PaysLess(Vault_redeem(World, last.caller, last.ret))

---------------------------------------------------------------------------
\* every active strategy of world w is recorded at its target
AtTargets(w) ==
    LET OnTarget(total) ==
            total > minLiquidity =>
               \A s \in Strategies :
                  w.strategyInfo[s].isActive =>
                     w.strategyInfo[s].totalDeposited =
                        MulDiv(total - minLiquidity, w.strategyInfo[s].targetAllocation,
                               MaxBps, FALSE)
    IN  OnTarget(Vault_totalAssets(w))

\* a rebalance of world w succeeds, moves no funds and changes nothing
RebalanceIdle(w) ==
    LET Idle(r) == r.ok /\ Storage(r.w) = w
    IN  Idle(Vault_rebalance(w, Owner))

\* two strategies, 2000 and 7001 bps, funded by two deposits of 2000001,
\* then the weights swapped: the first in the registry is below its
\* target by more than the buffer, the second above its target
SwappedWeights ==
    Then(Vault_updateStrategyAllocation(
      Then(Vault_updateStrategyAllocation(
        Then(Vault_deposit(
          Then(Vault_deposit(
            Then(Vault_addStrategy(
              Then(Vault_addStrategy(InitWorld, Owner, "strat1", 2000)),
              Owner, "strat2", 7001)),
            "user1", 2000001)),
          "user2", 2000001)),
        Owner, "strat2", 2000)),
      Owner, "strat1", 7001))

\* a rebalance of the swapped weights succeeds with no strategy call
\* failing, and leaves a state that is at its targets and that a second
\* rebalance leaves alone
SwappedWeightsConverge ==
    LET Converged(r) == r.ok /\ AtTargets(Then(r)) /\ RebalanceIdle(Then(r))
    IN  Converged(Vault_rebalance(SwappedWeights, Owner))

\* C36: after a successful rebalance (no strategy call failed in it) every
\* active strategy is recorded at floor((totalAssets - minLiquidity) *
\* weight / 10000), and a second rebalance issued at once moves no funds
\* and changes no bookkeeping, whatever the number and order of the
\* strategies (also for two strategies whose weights were swapped).
C36_RebalanceConverges ==
    [][/\ (nonce = 0) => SwappedWeightsConverge
       /\ (last'.op = "rebalance" /\ last'.ok)
             => AtTargets(WorldAfter) /\ RebalanceIdle(WorldAfter)]_vars

---------------------------------------------------------------------------
\* C37: in every reachable state the list getStrategies() returns holds
\* exactly the strategies whose isActive flag is set, each once (also a
\* strategy that was removed and added again); no call fails with
\* "remove failed".
C37_ListIsActiveSet ==
    /\ Listed(strategies) = ActiveStrategies
    /\ Len(strategies) = Cardinality(ActiveStrategies)
    /\ last.err # "remove failed"

\* the first of two listed strategies was removed: the last one took its
\* place on the list
C37_Witness ==
    /\ last.op = "removeStrategy"
    /\ last.ok
    /\ Len(strategies) = 1
    /\ strategies[1] # last.target
    /\ strategyInfo[strategies[1]].isActive
    /\ ~strategyInfo[last.target].isActive

---------------------------------------------------------------------------
\* a * b >= c * d, compared without forming the products
ProductAtLeast(a, b, c, d) == d = 0 \/ MulDiv(a, b, d, FALSE) >= c

\* the operations of the vault that C38 is about
NonDilutingOps ==
    {"deposit", "mint", "withdraw", "redeem", "rebalance", "addStrategy",
     "updateStrategyAllocation"}

\* the step kept the vault's assets per share, with `virtual` added to
\* assets and to supply on both sides
KeepsAssetsPerShare(virtual) ==
    LET Kept(before, after) ==
            ProductAtLeast(after + virtual, vSupply + virtual,
                           before + virtual, vSupply' + virtual)
    IN  Kept(Vault_totalAssets(World), Vault_totalAssets(WorldAfter))

\* C38 as claimed: across every successful deposit, mint, withdraw, redeem,
\* rebalance, addStrategy and updateStrategyAllocation made while shares
\* are outstanding (there are holders to dilute),
\* totalAssets_after * totalSupply_before >= totalAssets_before * totalSupply_after.
C38_RawAssetsPerShare ==
    [][(last'.op \in NonDilutingOps /\ last'.ok /\ vSupply > 0)
          => KeepsAssetsPerShare(0)]_vars

\* C38 amended: across every such operation, with the virtual share and the
\* virtual asset unit of the conversion counted on both sides,
\* (totalAssets_after + 1) * (totalSupply_before + 1)
\*    >= (totalAssets_before + 1) * (totalSupply_after + 1).
C38_NoDilution ==
    [][(last'.op \in NonDilutingOps /\ last'.ok) => KeepsAssetsPerShare(1)]_vars

\* a deposit priced away from 1:1 was made while another holder's shares
\* were outstanding
C38_Witness ==
    /\ last.op = "deposit"
    /\ last.ok
    /\ last.ret > 0
    /\ last.ret # last.amount
    /\ vSupply > last.ret

---------------------------------------------------------------------------
\* C39: in every reachable state, an active strategy's recorded
\* totalDeposited is 0 exactly when the vault holds no shares of it, so the
\* router and removeStrategy, which act on the recorded amount, never leave
\* funds behind.
C39_RecordMatchesShares ==
    \A s \in ActiveStrategies :
        (strategyInfo[s].totalDeposited = 0) <=> (sShares[s] = 0)

====
